---- MODULE Spec2Model ----
(***************************************************************************)
(* Model of the data aggregation and field-mapping pipeline of the         *)
(* interactive data visualization dashboard: the five chart processData    *)
(* strategies (bar, pie, line, scatter, heatmap), the DataLoader's field   *)
(* classification, suggestion and validation, and the Dashboard's chart    *)
(* creation gate.                                                          *)
(*                                                                         *)
(* Cells are JavaScript values: null, undefined, numbers, strings,         *)
(* booleans and Date objects.  A Date carries its day of 2023 (n; its time *)
(* value is (EpochDay + n) * DayMs milliseconds, so that day -EpochDay is  *)
(* new Date(0)) and its object identity (id); primitives have id 0.        *)
(* Numbers computed by the code are exact rationals with a NaN flag        *)
(* (JsNum); a time value of 2023 is beyond the integers at hand and is     *)
(* kept as days and milliseconds (TimeNumber).                             *)
(***************************************************************************)
EXTENDS Integers, Sequences, FiniteSets, TLC

\* ------------------------------------------------------------------ bounds
MaxLen == 3          \* longest dataset enumerated record by record
MaxCats == 17        \* most categories in the generated many-category datasets
MaxFields == 3       \* most columns of an uploaded file
MaxLoads == 1        \* loads per behaviour of the loader on its own
SchemaFields == 3    \* most columns of a file loaded to query its schema
MaxOverlap == 2      \* file imports per behaviour of the overlapping imports
MaxTime == 6         \* last instant of the clock of the debounced function
MaxCalls == 3        \* calls of the debounced function per behaviour
MaxImports == 1      \* files imported per behaviour of the Dashboard
MaxTimers == 1       \* timers of the Dashboard pending at once

\* ------------------------------------------------------------------- cells
Null == [t |-> "null", n |-> 0, s |-> "", id |-> 0]
Undef == [t |-> "undef", n |-> 0, s |-> "", id |-> 0]
Num(k) == [t |-> "num", n |-> k, s |-> "", id |-> 0]
Str(x) == [t |-> "str", n |-> 0, s |-> x, id |-> 0]
Bool(b) == [t |-> "bool", n |-> IF b THEN 1 ELSE 0, s |-> "", id |-> 0]
DateObj(epoch, ident) == [t |-> "date", n |-> epoch, s |-> "", id |-> ident]

\* record[field]: a key the record lacks reads as undefined
Get(d, f) == IF f \in DOMAIN d THEN d[f] ELSE Undef

\* v !== null && v !== undefined
NotNullish(c) == c.t # "null" /\ c.t # "undef"

\* JavaScript truthiness (the operand of !, && and ||)
Truthy(c) ==
  CASE c.t = "null" -> FALSE
    [] c.t = "undef" -> FALSE
    [] c.t = "num" -> c.n # 0
    [] c.t = "bool" -> c.n = 1
    [] c.t = "str" -> c.s # ""
    [] OTHER -> TRUE

\* ----------------------------------------------------------- JS numbers
RECURSIVE Gcd(_, _)
Gcd(a, b) == IF b = 0 THEN a ELSE Gcd(b, a % b)
Abs(a) == IF a < 0 THEN -a ELSE a

NaN == [nan |-> TRUE, num |-> 0, den |-> 1]
Int2Js(k) == [nan |-> FALSE, num |-> k, den |-> 1]
\* a reduced fraction with a positive denominator
Frac(a, b) ==
  LET g == Gcd(Abs(a), Abs(b))
      sgn == IF b < 0 THEN -1 ELSE 1
  IN [nan |-> FALSE, num |-> sgn * (a \div g), den |-> sgn * (b \div g)]
JsAdd(x, y) ==
  IF x.nan \/ y.nan THEN NaN
  ELSE Frac(x.num * y.den + y.num * x.den, x.den * y.den)
JsMul(x, y) == IF x.nan \/ y.nan THEN NaN ELSE Frac(x.num * y.num, x.den * y.den)
\* x / y; 0/0 is NaN, and a finite nonzero over 0 is an infinity, kept as NaN
\* here because nothing downstream tells the two apart
JsDiv(x, y) ==
  IF x.nan \/ y.nan \/ y.num = 0 THEN NaN
  ELSE Frac(x.num * y.den, x.den * y.num)
JsTruthy(x) == ~x.nan /\ x.num # 0
\* x - y
JsSub(x, y) == JsAdd(x, JsMul(Int2Js(-1), y))

\* ------------------------------------------------------ string conversions
\* The strings of the model, in ascending UTF-16 code unit order (the order
\* Array.prototype.sort() without a comparator uses).
StrOrder ==
  << "", " ", "-1", "0", "1", "2", "2023-01-01", "3", "A", "AAPL", "B",
     "Chicago", "Clothing", "Electronics", "GOOGL", "January",
     "Mon Jan 02 2023", "New York", "North", "October", "Others", "Q1", "Q4",
     "South", "Sun Jan 01 2023", "Thu Jan 01 1970", "Winter", "a", "abc", "a|b", "b|c", "c",
     "c1", "c10", "c11", "c12", "c13", "c14", "c15", "c16", "c17", "c18",
     "c2", "c3", "c4", "c5", "c6", "c7", "c8", "c9", "false", "null", "true",
     "undefined" >>
StrRank(x) == CHOOSE i \in 1..Len(StrOrder) : StrOrder[i] = x

\* Number.prototype.toString for the integers of the model
NumStr(k) == << "-1", "0", "1", "2", "3" >>[k + 2]
\* the milliseconds of a day, and the days from the epoch to the last day of
\* 2022: new Date("2023-01-01") has the time value 19358 * 86400000
DayMs == 86400000
EpochDay == 19357

\* Date.prototype.toString: one text per instant (day 1 and day 2 of 2023,
\* and the epoch)
DateStr(k) ==
  IF k = 1 THEN "Sun Jan 01 2023"
  ELSE IF k = 2 THEN "Mon Jan 02 2023"
  ELSE "Thu Jan 01 1970"

\* String(c), as a template literal `${c}` computes it
ToStr(c) ==
  CASE c.t = "str" -> c.s
    [] c.t = "num" -> NumStr(c.n)
    [] c.t = "date" -> DateStr(c.n)
    [] c.t = "bool" -> IF c.n = 1 THEN "true" ELSE "false"
    [] c.t = "null" -> "null"
    [] OTHER -> "undefined"

\* Number(s) for the strings of the model: "" and blanks are 0, a numeral is
\* its number, anything else NaN
StrToNumber(x) ==
  IF x \in {"", " "} THEN Int2Js(0)
  ELSE IF x = "1" THEN Int2Js(1)
  ELSE IF x = "2" THEN Int2Js(2)
  ELSE IF x = "3" THEN Int2Js(3)
  ELSE IF x = "0" THEN Int2Js(0)
  ELSE IF x = "-1" THEN Int2Js(-1)
  ELSE NaN

\* parseFloat(String(s)): the longest numeric prefix, so that "" and blanks do
\* not parse and a date string parses as its year
StrParseFloat(x) ==
  IF x \in {"", " "} THEN NaN
  ELSE IF x = "2023-01-01" THEN Int2Js(2023)
  ELSE StrToNumber(x)

\* Number(c), the unary plus: a Date gives its time value in milliseconds.
\* Of the Dates of the model only new Date(0) has a time value within the
\* integers at hand, and it is the only Date that sums and products take.
ToNumber(c) ==
  CASE c.t = "num" -> Int2Js(c.n)
    [] c.t = "null" -> Int2Js(0)
    [] c.t = "undef" -> NaN
    [] c.t = "bool" -> Int2Js(c.n)
    [] c.t = "date" -> Int2Js((EpochDay + c.n) * DayMs)
    [] OTHER -> StrToNumber(c.s)

\* isNaN(c): Number(c) is NaN; the time value of a Date never is
IsNaN(c) == c.t # "date" /\ ToNumber(c).nan

\* parseFloat(c): String(c) parsed as a decimal prefix
ParseFloat(c) ==
  CASE c.t = "num" -> Int2Js(c.n)
    [] c.t = "str" -> StrParseFloat(c.s)
    [] OTHER -> NaN

\* ------------------------------------------------------------ time values
\* The operands of >= and <=, and of the - of two Dates, are converted with
\* Number(), which for a Date is its time value.  The Date of day n is the
\* midnight (UTC) of the n-th day of 2023, EpochDay + n days after the epoch.
\* A number is kept here as days * DayMs + ms, days an integer and ms a JS
\* number.

\* a number that is not one of the integers a Num cell holds (2.5, or the
\* time value of a Date), as a value of JavaScript
JsNumber(x) ==
  IF x.days = 0 /\ ~x.ms.nan /\ x.ms.den = 1 THEN Num(x.ms.num)
  ELSE [t |-> "num", n |-> 0, s |-> "", id |-> 0, x |-> x]

\* Number(c), a Date giving its time value
TimeNumber(c) ==
  CASE c.t = "date" -> [days |-> EpochDay + c.n, ms |-> Int2Js(0)]
    [] c.t = "num" /\ "x" \in DOMAIN c -> c.x
    [] OTHER -> [days |-> 0, ms |-> ToNumber(c)]

\* x - y, x + y and x * p for a p without days
TimeSub(x, y) == [days |-> x.days - y.days, ms |-> JsSub(x.ms, y.ms)]
TimeAdd(x, y) == [days |-> x.days + y.days, ms |-> JsAdd(x.ms, y.ms)]
TimeMul(x, p) ==
  IF p.nan THEN [days |-> 0, ms |-> NaN]
  ELSE [days |-> (x.days * p.num) \div p.den,
        ms |-> JsAdd(JsMul(x.ms, p),
                     JsMul(Int2Js((x.days * p.num) % p.den), Frac(DayMs, p.den)))]

\* x >= y, neither being NaN: with d the difference of the days and n / e
\* the difference of the ms parts, d * DayMs + n / e >= 0, that is
\* d * e >= -floor(n / DayMs)
TimeGe(x, y) ==
  /\ ~x.ms.nan
  /\ ~y.ms.nan
  /\ (x.days - y.days) * x.ms.den * y.ms.den
       >= -((x.ms.num * y.ms.den - y.ms.num * x.ms.den) \div DayMs)

\* a >= b of JavaScript for operands that are not both strings
JsGe(a, b) ==
  \E x \in {TimeNumber(a)} : \E y \in {TimeNumber(b)} : TimeGe(x, y)

\* ------------------------------------------------------------ sequences
RECURSIVE InsertIdx(_, _, _)
\* index i placed after every index whose key is <= its own
InsertIdx(p, i, keys) ==
  IF p = <<>> THEN <<i>>
  ELSE IF keys[p[Len(p)]] <= keys[i] THEN Append(p, i)
  ELSE Append(InsertIdx(SubSeq(p, 1, Len(p) - 1), i, keys), p[Len(p)])

RECURSIVE SortIdxUpTo(_, _)
SortIdxUpTo(keys, k) ==
  IF k = 0 THEN <<>> ELSE InsertIdx(SortIdxUpTo(keys, k - 1), k, keys)

\* Array.prototype.sort is stable: the permutation that orders the integer
\* keys ascending and keeps equal keys in their original order
StableSortIdx(keys) == SortIdxUpTo(keys, Len(keys))

Permute(s, p) == [i \in 1..Len(p) |-> s[p[i]]]

RECURSIVE FilterSeq(_, _)
\* the elements of s whose index is in keep, in order
FilterSeq(s, keep) ==
  IF s = <<>> THEN <<>>
  ELSE LET rest == FilterSeq(SubSeq(s, 1, Len(s) - 1), keep)
       IN IF Len(s) \in keep THEN Append(rest, s[Len(s)]) ELSE rest

RECURSIVE SumInts(_)
SumInts(s) == IF s = <<>> THEN 0 ELSE s[1] + SumInts(Tail(s))

RECURSIVE Flatten(_)
Flatten(ss) == IF ss = <<>> THEN <<>> ELSE ss[1] \o Flatten(Tail(ss))

\* ------------------------------------------------------------ d3 helpers
\* d3.sum(values, accessor): every accessor result is coerced with unary plus
\* and added when it is neither NaN nor 0
RECURSIVE d3sum(_)
d3sum(cells) ==
  IF cells = <<>> THEN 0
  ELSE LET v == ToNumber(cells[Len(cells)])
           rest == d3sum(SubSeq(cells, 1, Len(cells) - 1))
       IN IF JsTruthy(v) THEN rest + v.num ELSE rest

\* d3.sum(values) over computed numbers: NaN and 0 add nothing
RECURSIVE d3sumJs(_)
d3sumJs(xs) ==
  IF xs = <<>> THEN Int2Js(0)
  ELSE LET v == xs[Len(xs)]
           rest == d3sumJs(SubSeq(xs, 1, Len(xs) - 1))
       IN IF JsTruthy(v) THEN JsAdd(rest, v) ELSE rest

\* the key d3.group's InternMap files a value under: objects by valueOf(),
\* so a Date by its time value, whichever object it is
InternKey(c) == IF c.t = "date" THEN [c EXCEPT !.id = 0] ELSE c

RECURSIVE d3groupFrom(_, _, _, _)
d3groupFrom(data, f, i, acc) ==
  IF i > Len(data) THEN acc
  ELSE LET k == Get(data[i], f)
           pos == {j \in 1..Len(acc) : InternKey(acc[j].key) = InternKey(k)}
       IN IF pos = {}
          THEN d3groupFrom(data, f, i + 1,
                           Append(acc, [key |-> k, values |-> <<data[i]>>]))
          ELSE LET j == CHOOSE j \in pos : TRUE
               IN d3groupFrom(data, f, i + 1,
                              [acc EXCEPT ![j].values = Append(@, data[i])])

\* d3.group(data, d => d[f]) as Array.from lists it: one [key, values] entry
\* per distinct key, in order of first appearance
d3group(data, f) == d3groupFrom(data, f, 1, <<>>)

\* d => d[field] || 0
OrZero(c) == IF Truthy(c) THEN c ELSE Num(0)

\* ---------------------------------------------------------------- charts
ChartTypes == {"bar", "line", "scatter", "pie", "heatmap"}

\* null, where a {slope, intercept, rSquared} object is expected
NoRegression == [isNull |-> TRUE]

\* the arrays a chart object holds, all empty after construction; the
\* categories of the heatmap, which no constructor assigns; the regression
\* the scatter plot's line and R-squared text are bound to, and whether the
\* group .regression-line they are joined under is in the chart
EmptyOut ==
  [filteredData |-> <<>>, groupedData |-> <<>>, processedData |-> <<>>,
   matrixData |-> <<>>, xCategories |-> Undef, yCategories |-> Undef,
   regression |-> NoRegression, regressionGroup |-> FALSE]

\* the chart after new Chart(container, options): createSVG of the scatter
\* plot appends the group .regression-line
NewOut(type) == [EmptyOut EXCEPT !.regressionGroup = (type = "scatter")]

\* d[field] where field is an option of the chart: the property named by the
\* option's string form
Field(d, opt) == Get(d, ToStr(opt))

\* {...defaults, ...options}: a passed option, even an undefined one, replaces
\* the default
MergeOptions(defaults, passed) ==
  [k \in DOMAIN defaults \cup DOMAIN passed |->
     IF k \in DOMAIN passed THEN passed[k] ELSE defaults[k]]

\* the field options the chart constructors default
DefaultOptions(type) ==
  CASE type = "bar" -> [xField |-> Str("category"), yField |-> Str("value")]
    [] type = "pie" -> [categoryField |-> Str("category"), valueField |-> Str("value")]
    [] type = "line" ->
         [xField |-> Str("date"), yField |-> Str("value"), groupField |-> Null]
    [] type = "scatter" -> [xField |-> Str("x"), yField |-> Str("y")]
    [] OTHER -> [xField |-> Str("x"), yField |-> Str("y"), valueField |-> Str("value")]

\* --- BarChart.processData
\* One row of the bar aggregation, the object literal
\* {[xField]: key, [yField]: sum, count: values.length, originalData: values}:
\* a property written twice holds what was written last.  So when xField and
\* yField name the same field the property holds the sum, and a field named
\* "count" or "originalData" holds the number of records or the records, not
\* the key or the sum.
BarRow(opts, g) ==
  LET total == d3sum([i \in 1..Len(g.values) |->
                        OrZero(Field(g.values[i], opts.yField))])
  IN [k \in {ToStr(opts.xField), ToStr(opts.yField), "count", "originalData"} |->
        IF k = "originalData" THEN g.values
        ELSE IF k = "count" THEN Len(g.values)
        ELSE IF k = ToStr(opts.yField) THEN total
        ELSE g.key]

BarProcessData(opts, data, prev) ==
  IF Len(data) = 0 THEN [prev EXCEPT !.filteredData = <<>>]
  ELSE LET grouped == d3group(data, ToStr(opts.xField))
           rows == [i \in 1..Len(grouped) |-> BarRow(opts, grouped[i])]
           \* sort((a, b) => b[yField] - a[yField])
           order == StableSortIdx([i \in 1..Len(rows) |-> -rows[i][ToStr(opts.yField)]])
       IN [prev EXCEPT !.filteredData = Permute(rows, order)]

\* --- PieChart.processData
maxSlices == 15

\* the percentage without the scaling to 100
PiePercentageUnscaled(value, total) ==
  IF total > 0 THEN JsDiv(Int2Js(value), Int2Js(total)) ELSE Int2Js(0)

\* total > 0 ? (value / total) * 100 : 0
PiePercentage(value, total) ==
  IF total > 0 THEN JsMul(JsDiv(Int2Js(value), Int2Js(total)), Int2Js(100))
  ELSE Int2Js(0)

PieRow(opts, g, total) ==
  LET value == d3sum([i \in 1..Len(g.values) |->
                        OrZero(Field(g.values[i], opts.valueField))])
  IN [category |-> g.key,
      value |-> value,
      count |-> Len(g.values),
      percentage |-> PiePercentage(value, total),
      originalData |-> g.values]

\* the groups with their sums, before percentages: the total is the d3.sum of
\* the group sums
PieTotal(opts, grouped) ==
  d3sum([i \in 1..Len(grouped) |->
           Num(d3sum([j \in 1..Len(grouped[i].values) |->
                        OrZero(Field(grouped[i].values[j], opts.valueField))]))])

\* the collapse keeping maxSlices rows before the "Others" row
PieCollapseKeepsMaxSlices(rows, total) ==
  IF Len(rows) > maxSlices
  THEN LET otherCategories == SubSeq(rows, maxSlices + 1, Len(rows))
           otherTotal == d3sum([i \in 1..Len(otherCategories) |->
                                  Num(otherCategories[i].value)])
       IN Append(SubSeq(rows, 1, maxSlices),
                 [category |-> Str("Others"),
                  value |-> otherTotal,
                  count |-> d3sum([i \in 1..Len(otherCategories) |->
                                     Num(otherCategories[i].count)]),
                  percentage |-> PiePercentage(otherTotal, total),
                  originalData |->
                    Flatten([i \in 1..Len(otherCategories) |->
                               otherCategories[i].originalData])])
  ELSE rows

\* "Limit to top N categories": the first maxSlices - 1 rows and one row for
\* the rest
PieCollapse(rows, total) ==
  IF Len(rows) > maxSlices
  THEN LET topCategories == SubSeq(rows, 1, maxSlices - 1)
           otherCategories == SubSeq(rows, maxSlices, Len(rows))
           otherTotal == d3sum([i \in 1..Len(otherCategories) |->
                                  Num(otherCategories[i].value)])
           otherCount == d3sum([i \in 1..Len(otherCategories) |->
                                  Num(otherCategories[i].count)])
       IN Append(topCategories,
                 [category |-> Str("Others"),
                  value |-> otherTotal,
                  count |-> otherCount,
                  percentage |-> PiePercentage(otherTotal, total),
                  originalData |->
                    Flatten([i \in 1..Len(otherCategories) |->
                               otherCategories[i].originalData])])
  ELSE rows

PieProcessData(opts, data, prev) ==
  IF Len(data) = 0 THEN [prev EXCEPT !.processedData = <<>>]
  ELSE LET grouped == d3group(data, ToStr(opts.categoryField))
           total == PieTotal(opts, grouped)
           rows == [i \in 1..Len(grouped) |-> PieRow(opts, grouped[i], total)]
           \* sort((a, b) => b.value - a.value)
           order == StableSortIdx([i \in 1..Len(rows) |-> -rows[i].value])
       IN [prev EXCEPT !.processedData = PieCollapse(Permute(rows, order), total)]

\* --- LineChart.processData
\* new Date(c).getTime(), in days and milliseconds, for a c that is not a
\* string: the time value of a Date, the number itself for the integers of
\* the model (Number(c) for a boolean and for null), NaN for undefined
DateValue(c) ==
  CASE c.t = "undef" -> [days |-> 0, ms |-> NaN]
    [] c.t \in {"date", "num", "bool", "null"} -> TimeNumber(c)

\* new Date(a) - new Date(b) < 0: a NaN difference is not negative
DateBefore(a, b) ==
  /\ ~DateValue(a).ms.nan
  /\ ~DateValue(b).ms.nan
  /\ ~TimeGe(DateValue(a), DateValue(b))

\* d[xField] && d[yField] !== null && d[yField] !== undefined
LineKeeps(opts, d) ==
  Truthy(Field(d, opts.xField)) /\ NotNullish(Field(d, opts.yField))

\* sort((a, b) => new Date(a[xField]) - new Date(b[xField])): the sort is
\* stable, so a record comes after the records that are before it by the
\* comparator and, among those it compares equal to, in its original place
LineSort(opts, recs) ==
  Permute(recs,
          StableSortIdx([i \in 1..Len(recs) |->
                           Cardinality({j \in 1..Len(recs) :
                                          DateBefore(Field(recs[j], opts.xField),
                                                     Field(recs[i], opts.xField))})]))

\* processData without the early return for an empty this.data
LineProcessDataUnguarded(opts, data, prev) ==
  LET kept == FilterSeq(data, {i \in 1..Len(data) : LineKeeps(opts, data[i])})
      filtered == LineSort(opts, kept)
      grouped == d3group(filtered, ToStr(opts.groupField))
  IN [prev EXCEPT
        !.filteredData = filtered,
        !.groupedData =
          IF Truthy(opts.groupField)
          THEN [i \in 1..Len(grouped) |->
                  [key |-> grouped[i].key,
                   values |-> LineSort(opts, grouped[i].values)]]
          ELSE << [key |-> Str("default"), values |-> filtered] >>]

\* processData grouping this.data, the records the filter dropped included
LineProcessDataGroupsInput(opts, data, prev) ==
  IF Len(data) = 0
  THEN [prev EXCEPT !.filteredData = <<>>, !.groupedData = <<>>]
  ELSE LET kept == FilterSeq(data, {i \in 1..Len(data) : LineKeeps(opts, data[i])})
           filtered == LineSort(opts, kept)
           grouped == d3group(data, ToStr(opts.groupField))
       IN [prev EXCEPT
             !.filteredData = filtered,
             !.groupedData =
               IF Truthy(opts.groupField)
               THEN [i \in 1..Len(grouped) |->
                       [key |-> grouped[i].key,
                        values |-> LineSort(opts, grouped[i].values)]]
               ELSE << [key |-> Str("default"), values |-> filtered] >>]

LineProcessData(opts, data, prev) ==
  IF Len(data) = 0
  THEN [prev EXCEPT !.filteredData = <<>>, !.groupedData = <<>>]
  ELSE LET kept == FilterSeq(data, {i \in 1..Len(data) : LineKeeps(opts, data[i])})
           filtered == LineSort(opts, kept)
           grouped == d3group(filtered, ToStr(opts.groupField))
       IN [prev EXCEPT
             !.filteredData = filtered,
             !.groupedData =
               IF Truthy(opts.groupField)
               THEN [i \in 1..Len(grouped) |->
                       [key |-> grouped[i].key,
                        values |-> LineSort(opts, grouped[i].values)]]
               ELSE << [key |-> Str("default"), values |-> filtered] >>]

\* --- ScatterPlot.processData
ScatterKeeps(opts, d) ==
  /\ NotNullish(Field(d, opts.xField)) /\ ~IsNaN(Field(d, opts.xField))
  /\ NotNullish(Field(d, opts.yField)) /\ ~IsNaN(Field(d, opts.yField))

ScatterProcessData(opts, data, prev) ==
  IF Len(data) = 0 THEN [prev EXCEPT !.filteredData = <<>>]
  ELSE [prev EXCEPT !.filteredData =
          FilterSeq(data, {i \in 1..Len(data) : ScatterKeeps(opts, data[i])})]

\* --- ScatterPlot.calculateLinearRegression
\* The statements after the guard.  The sums are d3.sum's, the products and
\* differences coerce their operands with Number(); a value yValues lacks
\* reads as undefined.  Of the divisions by 0 only 0/0 arises here:
\* n*sumXX - sumX*sumX is 0 only when the numerator is, and ssTotal is 0 only
\* when ssResidual is.
LinearFit(xValues, yValues) ==
  LET n == Len(xValues)
      N == Int2Js(n)
      X(i) == ToNumber(xValues[i])
      Y(i) == IF i <= Len(yValues) THEN ToNumber(yValues[i]) ELSE NaN
      sumX == d3sumJs([i \in 1..n |-> X(i)])
      sumY == d3sumJs([i \in 1..Len(yValues) |-> Y(i)])
      sumXY == d3sumJs([i \in 1..n |-> JsMul(X(i), Y(i))])
      sumXX == d3sumJs([i \in 1..n |-> JsMul(X(i), X(i))])
      slope == JsDiv(JsSub(JsMul(N, sumXY), JsMul(sumX, sumY)),
                     JsSub(JsMul(N, sumXX), JsMul(sumX, sumX)))
      intercept == JsDiv(JsSub(sumY, JsMul(slope, sumX)), N)
      yMean == JsDiv(sumY, N)
      dev(i) == JsSub(Y(i), yMean)
      res(i) == JsSub(Y(i), JsAdd(JsMul(slope, X(i)), intercept))
      ssTotal == d3sumJs([i \in 1..Len(yValues) |-> JsMul(dev(i), dev(i))])
      ssResidual == d3sumJs([i \in 1..Len(yValues) |-> JsMul(res(i), res(i))])
      rSquared == JsSub(Int2Js(1), JsDiv(ssResidual, ssTotal))
  IN [isNull |-> FALSE, slope |-> slope, intercept |-> intercept,
      rSquared |-> rSquared]

\* the method with a guard that asks for three pairs
calculateLinearRegressionNeedsThree(xValues, yValues) ==
  IF Len(xValues) < 3 THEN NoRegression ELSE LinearFit(xValues, yValues)

\* if (n < 2) return null
calculateLinearRegression(xValues, yValues) ==
  IF Len(xValues) < 2 THEN NoRegression ELSE LinearFit(xValues, yValues)

\* ScatterPlot.renderRegressionLine: the regression the path and the text
\* are bound to, left as it was by the early returns; the joins under
\* this.g.select('.regression-line') bind nothing once the group is removed
renderRegressionLine(opts, prev) ==
  IF ~Truthy(Get(opts, "showRegressionLine")) \/ Len(prev.filteredData) < 2
  THEN prev
  ELSE LET regression ==
             calculateLinearRegression(
               [i \in 1..Len(prev.filteredData) |-> Field(prev.filteredData[i], opts.xField)],
               [i \in 1..Len(prev.filteredData) |-> Field(prev.filteredData[i], opts.yField)])
       IN IF regression.isNull \/ ~prev.regressionGroup THEN prev
          ELSE [prev EXCEPT !.regression = regression]

\* ScatterPlot.renderEmpty: this.g.selectAll('*').remove() takes the group
\* .regression-line out of the chart, with what was bound under it
renderEmpty(prev) ==
  [prev EXCEPT !.regression = NoRegression, !.regressionGroup = FALSE]

\* ScatterPlot.render: renderEmpty when nothing is left to plot
ScatterRender(opts, prev) ==
  IF Len(prev.filteredData) = 0 THEN renderEmpty(prev)
  ELSE renderRegressionLine(opts, prev)

\* --- Heatmap.processData
\* the guard of the forEach body
HeatAdmits(opts, d) ==
  /\ NotNullish(Field(d, opts.xField))
  /\ NotNullish(Field(d, opts.yField))
  /\ NotNullish(Field(d, opts.valueField))
  /\ ~IsNaN(Field(d, opts.valueField))

\* `${xVal}|${yVal}`
HeatKey(xVal, yVal) == ToStr(xVal) \o "|" \o ToStr(yVal)

\* Set.prototype.add: a value already in the set (SameValueZero: primitives
\* by value, objects by identity) is not added again
SetAdd(set, c) == IF \E i \in 1..Len(set) : set[i] = c THEN set ELSE Append(set, c)

RECURSIVE HeatScan(_, _, _, _)
\* the forEach over this.data: acc holds the matrix object (entries in
\* insertion order) and the two category sets
HeatScan(opts, data, i, acc) ==
  IF i > Len(data) THEN acc
  ELSE LET d == data[i]
           xVal == Field(d, opts.xField)
           yVal == Field(d, opts.yField)
           value == Field(d, opts.valueField)
           key == HeatKey(xVal, yVal)
           pos == {j \in 1..Len(acc.matrix) : acc.matrix[j].key = key}
           fresh == [key |-> key, x |-> xVal, y |-> yVal, value |-> Int2Js(0),
                     count |-> 0, originalData |-> <<>>]
           m0 == IF pos = {} THEN Append(acc.matrix, fresh) ELSE acc.matrix
           j == CHOOSE j \in 1..Len(m0) : m0[j].key = key
       IN IF HeatAdmits(opts, d)
          THEN HeatScan(opts, data, i + 1,
                 [matrix |-> [m0 EXCEPT
                                ![j].value = JsAdd(@, ParseFloat(value)),
                                ![j].count = @ + 1,
                                ![j].originalData = Append(@, d)],
                  xs |-> SetAdd(acc.xs, xVal),
                  ys |-> SetAdd(acc.ys, yVal)])
          ELSE HeatScan(opts, data, i + 1, acc)

\* Array.from(set).sort(): ascending by the string form, stable
DefaultSort(cells) ==
  Permute(cells, StableSortIdx([i \in 1..Len(cells) |-> StrRank(ToStr(cells[i]))]))

\* one cell of the complete matrix: the entry filed under the cell's key, or
\* the zero fill
HeatCell(matrix, xVal, yVal) ==
  LET key == HeatKey(xVal, yVal)
      pos == {j \in 1..Len(matrix) : matrix[j].key = key}
  IN IF pos # {}
     THEN LET existing == matrix[CHOOSE j \in pos : TRUE]
          IN [x |-> xVal, y |-> yVal,
              value |-> JsDiv(existing.value, Int2Js(existing.count)),
              count |-> existing.count,
              originalData |-> existing.originalData]
     ELSE [x |-> xVal, y |-> yVal, value |-> Int2Js(0), count |-> 0,
           originalData |-> <<>>]

HeatmapProcessData(opts, data, prev) ==
  IF Len(data) = 0
  THEN [prev EXCEPT !.processedData = <<>>, !.matrixData = <<>>]
  ELSE LET scan == HeatScan(opts, data, 1, [matrix |-> <<>>, xs |-> <<>>, ys |-> <<>>])
           xCats == DefaultSort(scan.xs)
           yCats == DefaultSort(scan.ys)
           nx == Len(xCats)
       IN [prev EXCEPT
             !.processedData =
               [i \in 1..Len(scan.matrix) |->
                  [x |-> scan.matrix[i].x, y |-> scan.matrix[i].y,
                   value |-> JsDiv(scan.matrix[i].value, Int2Js(scan.matrix[i].count)),
                   count |-> scan.matrix[i].count,
                   originalData |-> scan.matrix[i].originalData]],
             !.xCategories = xCats,
             !.yCategories = yCats,
             \* yCategories.forEach(y => xCategories.forEach(x => push))
             !.matrixData =
               [k \in 1..(nx * Len(yCats)) |->
                  HeatCell(scan.matrix, xCats[((k - 1) % nx) + 1],
                           yCats[((k - 1) \div nx) + 1])]]

\* chart.processData() of the chart type
ProcessData(type, opts, data, prev) ==
  CASE type = "bar" -> BarProcessData(opts, data, prev)
    [] type = "pie" -> PieProcessData(opts, data, prev)
    [] type = "line" -> LineProcessData(opts, data, prev)
    [] type = "scatter" -> ScatterProcessData(opts, data, prev)
    [] OTHER -> HeatmapProcessData(opts, data, prev)

\* this.data after processData(): every processData reads this.data through
\* d3.group, filter or forEach, sorts only the arrays it has built, and
\* assigns to no field of a record
DataAfterProcessData(type, opts, d) == d

\* chart.render() of the chart type, as far as it leaves state behind
Render(type, opts, prev) ==
  IF type = "scatter" THEN ScatterRender(opts, prev) ELSE prev

\* ------------------------------------------------------ a chart on its own
\* a chart object: its type, options, data and the arrays processData fills;
\* fed records that updateData has run, fit the last direct call of
\* calculateLinearRegression since then
VARIABLES chartType, options, data, out, fed, fit
\* a DataLoader: its datasets map, currentDataset and filters; reply records
\* the last query made since the store last changed, loads counts the loads
VARIABLES datasets, currentDataset, filters, reply, loads
\* the Dashboard object with its DataLoader, the controls of its page, its
\* pending timers and file reads
VARIABLES dashboard
\* a function returned by Utils.debounce with its timer, the clock, and the
\* calls made and received so far
VARIABLES debouncer

aggVars == << chartType, options, data, out, fed, fit >>
loaderVars == << datasets, currentDataset, filters, reply, loads >>
vars == << chartType, options, data, out, fed, fit,
           datasets, currentDataset, filters, reply, loads, dashboard, debouncer >>

NoReply == [op |-> "none"]

\* calculateLinearRegression has not been called
NoFit == [called |-> FALSE]

\* the sliders of the page, each with a listener made by Utils.debounce
Sliders == {"dateRange", "valueRange"}

\* Utils.debounce(func, wait) has returned for each slider: timeout is
\* undefined, nothing was called
NewDebouncer ==
  [now |-> 0,
   timer |-> [of \in Sliders |-> [set |-> FALSE, due |-> 0, args |-> 100]],
   log |-> << >>]

\* no Dashboard is constructed
NoDashboard == [constructed |-> FALSE]

\* new DataLoader()
LoaderInit ==
  /\ datasets = << >>
  /\ currentDataset = Null
  /\ filters = << >>
  /\ reply = NoReply
  /\ loads = 0

Rec(c, r, d, v) == [category |-> c, region |-> r, date |-> d, value |-> v]
\* a record with a field named count
CountRec(c, k) == [category |-> c, count |-> Num(k)]

\* a record as it is appended at position i: the Date objects of a record are
\* objects of their own
Fresh(r, i) ==
  [f \in DOMAIN r |-> IF r[f].t = "date" THEN DateObj(r[f].n, i) ELSE r[f]]

\* the records each chart type is fed; the Date of the scatter records is
\* new Date(0)
Palette(type) ==
  CASE type = "bar" ->
         {Rec(c, Null, Null, v) :
            c \in {Str("A"), Str("B"), Null},
            v \in {Null, Num(-1), Num(2), Str("abc")}}
           \cup {CountRec(Str("A"), 3), CountRec(Str("B"), 1)}
    [] type = "pie" ->
         {Rec(c, Null, Null, v) :
            c \in {Str("A"), Str("B"), Null},
            v \in {Null, Num(-1), Num(2), Str("abc")}}
    [] type = "heatmap" ->
         {Rec(c, r, Null, v) :
            c \in {Str("a"), Str("a|b"), DateObj(1, 0)},
            r \in {Str("c"), Str("b|c")},
            v \in {Null, Num(1), Num(3)}}
    [] type = "line" ->
         {Rec(Null, r, d, v) :
            r \in {Str("A"), Str("B")},
            d \in {Null, Num(0), Num(2), DateObj(1, 0)},
            v \in {Null, Num(1)}}
    [] OTHER ->
         {Rec(Null, Null, d, v) :
            d \in {Null, Num(1), Str("abc"), DateObj(-EpochDay, 0)},
            v \in {Null, Num(2), Bool(TRUE)}}

\* the field options a chart is constructed with
PassedOptions(type) ==
  CASE type = "bar" ->
         {[xField |-> Str("category"), yField |-> Str("value")],
          [xField |-> Str("category"), yField |-> Str("category")],
          [xField |-> Str("category"), yField |-> Str("count")]}
    [] type = "pie" -> {[categoryField |-> Str("category"), valueField |-> Str("value")]}
    [] type = "line" ->
         {[xField |-> Str("date"), yField |-> Str("value"), groupField |-> g] :
            g \in {Undef, Str("region")}}
    [] type = "scatter" ->
         {[xField |-> Str("date"), yField |-> Str("value"), showRegressionLine |-> r] :
            r \in {Undef, Bool(TRUE)}}
    [] OTHER ->
         {[xField |-> Str("category"), yField |-> Str("region"),
           valueField |-> Str("value")]}

\* Datasets with many categories, one record per category c1, c2, ... and,
\* when dup is set, a second record for the first and for the last category.
CatName(i) ==
  << "c1", "c2", "c3", "c4", "c5", "c6", "c7", "c8", "c9", "c10", "c11", "c12",
     "c13", "c14", "c15", "c16", "c17", "c18" >>[i]
ValuePatterns == 1..8
PatternValue(pat, i, nc) ==
  CASE pat = 1 -> Num(i)
    [] pat = 2 -> Num(nc - i + 1)
    [] pat = 3 -> Num(2)
    [] pat = 4 -> Num(i % 3)
    [] pat = 5 -> IF i % 2 = 0 THEN Null ELSE Num(i)
    [] pat = 6 -> Num(i - 3)
    [] pat = 7 -> Null
    [] OTHER -> Num(-1)
ManyCats(nc, pat, dup, others) ==
  LET cat(i) == IF others /\ i = 2 THEN Str("Others") ELSE Str(CatName(i))
      base == [i \in 1..nc |-> Rec(cat(i), Null, Null, PatternValue(pat, i, nc))]
  IN IF dup
     THEN base \o << Rec(cat(1), Null, Null, Num(1)), Rec(cat(nc), Null, Null, Num(2)) >>
     ELSE base
ManyCatsData ==
  {ManyCats(nc, pat, dup, others) :
     nc \in (maxSlices - 1)..MaxCats, pat \in ValuePatterns,
     dup \in BOOLEAN, others \in BOOLEAN}

\* new Chart(container, options): the arrays are empty
Init ==
  /\ chartType \in ChartTypes
  /\ options \in {MergeOptions(DefaultOptions(chartType), p) : p \in PassedOptions(chartType)}
  /\ data = <<>>
  /\ out = NewOut(chartType)
  /\ fed = FALSE
  /\ fit = NoFit
  /\ LoaderInit
  /\ dashboard = NoDashboard
  /\ debouncer = NewDebouncer

\* chart.updateData(d): this.data = d || []; this.processData();
\* this.updateScales(); this.render()
UpdateData(d) ==
  /\ data' = DataAfterProcessData(chartType, options, d)
  /\ out' = Render(chartType, options, ProcessData(chartType, options, d, out))
  /\ fed' = TRUE
  /\ fit' = NoFit
  /\ UNCHANGED << chartType, options >>
  /\ UNCHANGED loaderVars
  /\ UNCHANGED << dashboard, debouncer >>

\* the view grows by one record
UpdateAppend ==
  /\ Len(data) < MaxLen
  /\ \E r \in Palette(chartType) : UpdateData(Append(data, Fresh(r, Len(data) + 1)))

\* the view becomes empty (a filter that nothing passes)
UpdateEmpty == UpdateData(<<>>)

\* a many-category dataset is loaded
UpdateMany ==
  /\ chartType \in {"bar", "pie"}
  /\ data = <<>>
  /\ \E d \in ManyCatsData : UpdateData(d)

\* the numbers of the pairs calculateLinearRegression is called with
RegressionValues == {Num(0), Num(1), Num(2)}

\* scatter.calculateLinearRegression(xValues, yValues), called on a plot
\* that has not been fed: the method reads nothing of the plot
CalculateLinearRegression ==
  /\ chartType = "scatter"
  /\ ~fed
  /\ ~fit.called
  /\ \E n \in 0..MaxLen :
       \E xs \in [1..n -> RegressionValues], ys \in [1..n -> RegressionValues] :
         fit' = [called |-> TRUE, xs |-> xs, ys |-> ys,
                 result |-> calculateLinearRegression(xs, ys)]
  /\ UNCHANGED << chartType, options, data, out, fed >>
  /\ UNCHANGED loaderVars
  /\ UNCHANGED << dashboard, debouncer >>

\* chart.updateOptions(newOptions): this.options = {...this.options,
\* ...newOptions}; with data, processData(), updateScales() and render().
\* The option objects are those a chart is constructed with.
UpdateOptions ==
  /\ \E newOptions \in PassedOptions(chartType) :
       LET merged == MergeOptions(options, newOptions)
       IN /\ options' = merged
          /\ out' = IF Len(data) > 0
                    THEN Render(chartType, merged, ProcessData(chartType, merged, data, out))
                    ELSE out
  /\ UNCHANGED << chartType, data, fed, fit >>
  /\ UNCHANGED loaderVars
  /\ UNCHANGED << dashboard, debouncer >>

\* scatter.toggleRegressionLine(show): the option is assigned; the line is
\* rendered, or what is under the group .regression-line is removed
ToggleRegressionLine ==
  /\ chartType = "scatter"
  /\ \E show \in BOOLEAN :
       LET shown == [options EXCEPT !.showRegressionLine = Bool(show)]
       IN /\ options' = shown
          /\ out' = IF show THEN renderRegressionLine(shown, out)
                    ELSE [out EXCEPT !.regression = NoRegression]
  /\ UNCHANGED << chartType, data, fed, fit >>
  /\ UNCHANGED loaderVars
  /\ UNCHANGED << dashboard, debouncer >>

\* chart.resize(): the sizes are read again, then updateScales() and
\* render()
Resize ==
  /\ out' = Render(chartType, options, out)
  /\ UNCHANGED << chartType, options, data, fed, fit >>
  /\ UNCHANGED loaderVars
  /\ UNCHANGED << dashboard, debouncer >>

Next ==
  \/ UpdateAppend
  \/ UpdateEmpty
  \/ UpdateMany
  \/ CalculateLinearRegression
  \/ UpdateOptions
  \/ ToggleRegressionLine
  \/ Resize

Spec == Init /\ [][Next]_vars


\* ============================================================== DataLoader
\* --- Utils.filterData
\* a filter value is null, an array (k = "array"), a {min, max} object
\* (k = "range") or a value compared with ===
FilterPasses(itemValue, filterValue) ==
  CASE filterValue.k = "null" -> TRUE
    [] filterValue.k = "array" -> itemValue \in filterValue.vals
    [] filterValue.k = "range" ->
         JsGe(itemValue, filterValue.min) /\ JsGe(filterValue.max, itemValue)
    [] OTHER -> itemValue = filterValue.val

\* a filterData that returns the passing records last first
filterDataLastFirst(rows, criteria) ==
  LET kept == FilterSeq(rows, {i \in 1..Len(rows) :
                                 \A key \in DOMAIN criteria :
                                   FilterPasses(Get(rows[i], key), criteria[key])})
  IN [i \in 1..Len(kept) |-> kept[Len(kept) + 1 - i]]

filterData(rows, criteria) ==
  FilterSeq(rows, {i \in 1..Len(rows) :
                     \A key \in DOMAIN criteria :
                       FilterPasses(Get(rows[i], key), criteria[key])})

\* A dataset is an array of records built with the same keys in the same
\* order: cols is that key order (Object.keys of a record), rows the records.
NoData == [cols |-> <<>>, rows |-> <<>>]

\* String.prototype.trim for the strings of the model
StrTrim(x) == IF x = " " THEN "" ELSE x

\* DataLoader.isDateString: a string of one of the four date patterns that
\* Date.parse accepts
isDateString(c) == c.t = "str" /\ c.s \in {"2023-01-01"}

\* new Date(str).getTime() for the date strings of the model
DateParse(x) == IF x = "2023-01-01" THEN 1 ELSE 2

\* the cell conversion of loadUserCSV, for the cell of row i
CsvCoerce(c, i) ==
  IF ~Truthy(c) \/ StrTrim(c.s) = "" THEN Null
  ELSE IF ~IsNaN(c) /\ ~ParseFloat(c).nan THEN Num(ParseFloat(c).num)
  ELSE IF isDateString(c) THEN DateObj(DateParse(c.s), i)
  ELSE Str(StrTrim(c.s))

\* DataLoader.processData(data, {}): a copy of the array
LoaderProcessData(ds) == ds

\* loadUserCSV's reader.onload, up to the dataset it stores
ParseUserCSV(file) ==
  LoaderProcessData(
    [cols |-> file.cols,
     rows |-> [i \in 1..Len(file.rows) |->
                 [f \in DOMAIN file.rows[i] |-> CsvCoerce(file.rows[i][f], i)]]])

\* the conversion loadCSV and loadUserJSON apply to a string
StringCoerce(c, i) ==
  IF ~IsNaN(c) /\ ~ParseFloat(c).nan /\ StrTrim(c.s) # ""
  THEN Num(ParseFloat(c).num)
  ELSE IF isDateString(c) THEN DateObj(DateParse(c.s), i)
  ELSE c

\* loadCSV's row conversion, up to the dataset it stores
ParseCSV(file) ==
  LoaderProcessData(
    [cols |-> file.cols,
     rows |-> [i \in 1..Len(file.rows) |->
                 [f \in DOMAIN file.rows[i] |-> StringCoerce(file.rows[i][f], i)]]])

\* the cell conversion of loadUserJSON: strings are converted, null and
\* undefined become null, any other value is kept
JsonCoerce(c, i) ==
  IF ~NotNullish(c) THEN Null
  ELSE IF c.t = "str" THEN StringCoerce(c, i)
  ELSE c

\* loadUserJSON's reader.onload for a file holding an array, up to the
\* dataset it stores
ParseUserJSON(file) ==
  LoaderProcessData(
    [cols |-> file.cols,
     rows |-> [i \in 1..Len(file.rows) |->
                 [f \in DOMAIN file.rows[i] |-> JsonCoerce(file.rows[i][f], i)]]])

\* loadJSON: the parsed array, as it is
ParseJSON(file) == LoaderProcessData([cols |-> file.cols, rows |-> file.rows])

\* a getRawData that returns the filtered view of the loader
getRawDataFiltered(ds, cur) ==
  IF Truthy(cur) /\ cur.s \in DOMAIN ds
  THEN [cols |-> ds[cur.s].cols, rows |-> filterData(ds[cur.s].rows, filters)]
  ELSE NoData

\* getRawData(): this.datasets.get(datasetName || this.currentDataset) || []
getRawData(ds, cur) ==
  IF Truthy(cur) /\ cur.s \in DOMAIN ds THEN ds[cur.s] ELSE NoData

\* data.map(d => d[col]).filter(v => v !== null && v !== undefined)[0]
RECURSIVE FirstNonNull(_, _, _)
FirstNonNull(rows, col, i) ==
  IF i > Len(rows) THEN Undef
  ELSE IF NotNullish(Get(rows[i], col)) THEN Get(rows[i], col)
  ELSE FirstNonNull(rows, col, i + 1)

\* the branch getFieldSuggestions files a column under
SuggestKind(sampleValue) ==
  IF sampleValue.t = "num" THEN "numeric"
  ELSE IF sampleValue.t = "date" \/ isDateString(sampleValue) THEN "date"
  ELSE "categorical"

\* getFieldSuggestions: {} (empty |-> TRUE) for an empty dataset, else the
\* columns by kind, each list in column order
getFieldSuggestions(ds, cur) ==
  LET dset == getRawData(ds, cur)
      columns == dset.cols    \* Object.keys(data[0])
      ofKind(k) ==
        FilterSeq(columns,
                  {i \in 1..Len(columns) :
                     SuggestKind(FirstNonNull(dset.rows, columns[i], 1)) = k})
  IN IF Len(dset.rows) = 0
     THEN [empty |-> TRUE, numeric |-> <<>>, categorical |-> <<>>,
           date |-> <<>>, all |-> <<>>]
     ELSE [empty |-> FALSE, numeric |-> ofKind("numeric"),
           categorical |-> ofKind("categorical"), date |-> ofKind("date"),
           all |-> columns]

\* Utils.calculateStats(values): the valid values of a column that
\* getColumnInfo finds numeric are numbers, added and ordered as such
calculateStats(values) ==
  LET validData == FilterSeq(values, {i \in 1..Len(values) :
                                        ~IsNaN(values[i]) /\ NotNullish(values[i])})
      nums == [i \in 1..Len(validData) |-> ToNumber(validData[i]).num]
      sorted == Permute(nums, StableSortIdx(nums))
      count == Len(validData)
      sum == SumInts(nums)
  IN IF count = 0
     THEN [min |-> Int2Js(0), max |-> Int2Js(0), mean |-> Int2Js(0),
           median |-> Int2Js(0), count |-> 0]
     ELSE [min |-> Int2Js(sorted[1]),
           max |-> Int2Js(sorted[count]),
           mean |-> JsDiv(Int2Js(sum), Int2Js(count)),
           median |-> IF count % 2 = 0
                      THEN JsDiv(Int2Js(sorted[count \div 2] + sorted[(count \div 2) + 1]),
                                 Int2Js(2))
                      ELSE Int2Js(sorted[(count \div 2) + 1]),
           count |-> count,
           sum |-> Int2Js(sum)]

\* one entry of getColumnInfo: new Set(values).size counts primitives by
\* value and objects by identity
ColumnInfo(col, values) ==
  LET sampleValue == IF values = << >> THEN Undef ELSE values[1]
      type == IF sampleValue.t = "num" THEN "numeric"
              ELSE IF sampleValue.t = "date" THEN "date"
              ELSE "categorical"
      info == [name |-> col,
               type |-> type,
               uniqueCount |-> Cardinality({values[i] : i \in 1..Len(values)}),
               sampleValues |-> SubSeq(values, 1, IF Len(values) < 5 THEN Len(values) ELSE 5)]
  IN IF type = "numeric" THEN MergeOptions(info, calculateStats(values)) ELSE info

\* getColumnInfo: {} for an empty dataset, else an entry for every key of
\* the first record
getColumnInfo(ds, cur) ==
  LET dset == getRawData(ds, cur)
  IN IF Len(dset.rows) = 0 THEN << >>
     ELSE [col \in {dset.cols[i] : i \in 1..Len(dset.cols)} |->
             ColumnInfo(col,
               FilterSeq([i \in 1..Len(dset.rows) |-> Get(dset.rows[i], col)],
                         {i \in 1..Len(dset.rows) : NotNullish(Get(dset.rows[i], col))}))]

\* list[i] of a JavaScript array: undefined past the end
At(list, i) == IF i <= Len(list) THEN Str(list[i]) ELSE Undef
\* a || b
Or(a, b) == IF Truthy(a) THEN a ELSE b

\* A value that is computed once and read several times is bound as
\*   CHOOSE r \in {... v ... : v \in {e}} : TRUE
\* which is LET v == e IN ... v ..., with e evaluated once.

\* a suggester without the positional fallbacks suggestions.all[i]
getSmartFieldMappingNoFallback(type, ds, cur) ==
  CHOOSE r \in
    { IF sg.empty THEN [threw |-> TRUE, mappings |-> << >>]
      ELSE [threw |-> FALSE,
            mappings |->
              CASE type = "bar" -> [x |-> At(sg.categorical, 1), y |-> At(sg.numeric, 1)]
                [] type = "line" ->
                     [x |-> Or(At(sg.date, 1), At(sg.numeric, 1)), y |-> At(sg.numeric, 1)]
                [] type = "scatter" ->
                     [x |-> At(sg.numeric, 1), y |-> At(sg.numeric, 2),
                      size |-> Or(At(sg.numeric, 3), Null),
                      color |-> Or(At(sg.categorical, 1), Null)]
                [] type = "pie" ->
                     [label |-> At(sg.categorical, 1), value |-> At(sg.numeric, 1)]
                [] OTHER ->
                     [x |-> At(sg.categorical, 1), y |-> At(sg.categorical, 2),
                      value |-> At(sg.numeric, 1)]]
      : sg \in {getFieldSuggestions(ds, cur)} } : TRUE

\* getSmartFieldMapping: reading suggestions.categorical[0] of {} throws
getSmartFieldMapping(type, ds, cur) ==
  CHOOSE r \in
    { IF sg.empty THEN [threw |-> TRUE, mappings |-> << >>]
      ELSE [threw |-> FALSE,
            mappings |->
              CASE type = "bar" ->
                     [x |-> Or(At(sg.categorical, 1), At(sg.all, 1)),
                      y |-> Or(At(sg.numeric, 1), At(sg.all, 2))]
                [] type = "line" ->
                     [x |-> Or(Or(At(sg.date, 1), At(sg.numeric, 1)), At(sg.all, 1)),
                      y |-> Or(At(sg.numeric, 1), At(sg.all, 2))]
                [] type = "scatter" ->
                     [x |-> Or(At(sg.numeric, 1), At(sg.all, 1)),
                      y |-> Or(At(sg.numeric, 2), At(sg.all, 2)),
                      size |-> Or(At(sg.numeric, 3), Null),
                      color |-> Or(At(sg.categorical, 1), Null)]
                [] type = "pie" ->
                     [label |-> Or(At(sg.categorical, 1), At(sg.all, 1)),
                      value |-> Or(At(sg.numeric, 1), At(sg.all, 2))]
                [] type = "heatmap" ->
                     [x |-> Or(At(sg.categorical, 1), At(sg.all, 1)),
                      y |-> Or(At(sg.categorical, 2), At(sg.all, 2)),
                      value |-> Or(At(sg.numeric, 1), At(sg.all, 3))]
                [] OTHER -> [x |-> At(sg.all, 1), y |-> At(sg.all, 2)]]
      : sg \in {getFieldSuggestions(ds, cur)} } : TRUE

InSeq(x, list) == \E i \in 1..Len(list) : list[i] = x

RECURSIVE JoinOr(_)
\* requiredTypes.join(' or ')
JoinOr(list) ==
  IF Len(list) = 1 THEN list[1] ELSE list[1] \o " or " \o JoinOr(Tail(list))

\* the roles validateFieldMapping checks for a chart type, in order, with the
\* recommended kinds and the name used in messages
CheckedRoles(type) ==
  CASE type = "bar" ->
         << [role |-> "x", types |-> << "categorical" >>, name |-> "X-axis"],
            [role |-> "y", types |-> << "numeric" >>, name |-> "Y-axis"] >>
    [] type = "line" ->
         << [role |-> "x", types |-> << "date", "numeric" >>, name |-> "X-axis"],
            [role |-> "y", types |-> << "numeric" >>, name |-> "Y-axis"] >>
    [] type = "scatter" ->
         << [role |-> "x", types |-> << "numeric" >>, name |-> "X-axis"],
            [role |-> "y", types |-> << "numeric" >>, name |-> "Y-axis"] >>
    [] type = "pie" ->
         << [role |-> "label", types |-> << "categorical" >>, name |-> "Label"],
            [role |-> "value", types |-> << "numeric" >>, name |-> "Value"] >>
    [] type = "heatmap" ->
         << [role |-> "x", types |-> << "categorical" >>, name |-> "X-axis"],
            [role |-> "y", types |-> << "categorical" >>, name |-> "Y-axis"],
            [role |-> "value", types |-> << "numeric" >>, name |-> "Value"] >>
    [] OTHER -> << >>

\* a checkField that files a kind mismatch under errors
checkFieldKindMismatchIsError(type, sg, field, requiredTypes, fieldName) ==
  LET fieldType == IF InSeq(field.s, sg.numeric) THEN "numeric"
                   ELSE IF InSeq(field.s, sg.date) THEN "date"
                   ELSE "categorical"
  IN IF ~Truthy(field)
     THEN [threw |-> FALSE, errors |-> << "required" >>, warnings |-> << >>]
     ELSE IF sg.empty
     THEN [threw |-> TRUE, errors |-> << >>, warnings |-> << >>]
     ELSE IF ~InSeq(ToStr(field), sg.all)
     THEN [threw |-> FALSE, errors |-> << "does not exist" >>, warnings |-> << >>]
     ELSE IF ~InSeq(fieldType, requiredTypes)
     THEN [threw |-> FALSE, errors |-> << "kind" >>, warnings |-> << >>]
     ELSE [threw |-> FALSE, errors |-> << >>, warnings |-> << >>]

\* checkField(field, requiredTypes, fieldName): what it appends, or that it
\* threw reading suggestions.all of {}
checkField(type, sg, field, requiredTypes, fieldName) ==
  LET fieldType == IF InSeq(field.s, sg.numeric) THEN "numeric"
                   ELSE IF InSeq(field.s, sg.date) THEN "date"
                   ELSE "categorical"
  IN IF ~Truthy(field)
     THEN [threw |-> FALSE,
           errors |-> << fieldName \o " field is required for " \o type \o " chart" >>,
           warnings |-> << >>]
     ELSE IF sg.empty
     THEN [threw |-> TRUE, errors |-> << >>, warnings |-> << >>]
     ELSE IF ~InSeq(ToStr(field), sg.all)
     THEN [threw |-> FALSE,
           errors |-> << "Field '" \o ToStr(field) \o "' does not exist in dataset" >>,
           warnings |-> << >>]
     ELSE IF ~InSeq(fieldType, requiredTypes)
     THEN [threw |-> FALSE, errors |-> << >>,
           warnings |-> << "Field '" \o ToStr(field) \o "' is " \o fieldType \o ", but "
                           \o JoinOr(requiredTypes) \o " is recommended for " \o fieldName >>]
     ELSE [threw |-> FALSE, errors |-> << >>, warnings |-> << >>]

\* validation.errors and validation.warnings after one more checkField
Checked(acc0, r0) ==
  CHOOSE res \in
    { [threw |-> r.threw,
       errors |-> acc.errors \o r.errors,
       warnings |-> acc.warnings \o r.warnings]
      : acc \in {acc0}, r \in {r0} } : TRUE

RECURSIVE CheckAll(_, _, _, _, _)
\* the checkField calls of the switch, one after the other
CheckAll(type, sg, mapping, roles, acc0) ==
  CHOOSE res \in
    { IF roles = << >> \/ acc.threw THEN acc
      ELSE CheckAll(type, sg, mapping, Tail(roles),
                    Checked(acc, checkField(type, sg, Get(mapping, roles[1].role),
                                            roles[1].types, roles[1].name)))
      : acc \in {acc0} } : TRUE

Threw == [threw |-> TRUE]

\* validateFieldMapping(type, mapping): the result object, or Threw
validateFieldMapping(type, mapping, ds, cur) ==
  CHOOSE r \in UNION {
    { IF checked.threw \/ smart.threw THEN Threw
      ELSE [threw |-> FALSE,
            isValid |-> Len(checked.errors) = 0,
            errors |-> checked.errors,
            warnings |-> checked.warnings,
            suggestions |-> smart.mappings]
      : checked \in {CheckAll(type, sg, m, CheckedRoles(type),
                              [threw |-> FALSE, errors |-> << >>, warnings |-> << >>])},
        smart \in {getSmartFieldMapping(type, ds, cur)} }
    : sg \in {getFieldSuggestions(ds, cur)}, m \in {mapping} } : TRUE

\* -------------------------------------------------- the loader on its own
\* the names of the columns of a file, by position
FieldNames == << "category", "sales", "region", "date" >>

\* the cells of a column of a two-row file, as text: categories, numbers,
\* numbers after a blank, dates
ColumnShapes ==
  { << Str("A"), Str("B") >>, << Str("2"), Str("3") >>,
    << Str(""), Str("2") >>, << Str("2023-01-01"), Str("2023-01-01") >> }

\* a file of nf columns: two rows of the given shapes, or the header alone
FileOf(nf, shapes, nrows) ==
  [cols |-> [i \in 1..nf |-> FieldNames[i]],
   rows |-> [r \in 1..nrows |->
               [f \in {FieldNames[i] : i \in 1..nf} |->
                  shapes[CHOOSE i \in 1..nf : FieldNames[i] = f][r]]]]

Files ==
  UNION {{FileOf(nf, shapes, nrows) : shapes \in [1..nf -> ColumnShapes], nrows \in {0, 2}} :
         nf \in 1..MaxFields}

UserName == "user_1"

\* this.datasets.set(name, d); this.currentDataset = name
Store(name, d) ==
  /\ datasets' = [n \in DOMAIN datasets \cup {name} |-> IF n = name THEN d ELSE datasets[n]]
  /\ currentDataset' = Str(name)
  /\ filters' = filters
  /\ reply' = NoReply
  /\ loads' = loads + 1
  /\ UNCHANGED aggVars
  /\ UNCHANGED << dashboard, debouncer >>

\* loadUserFile(file, name) of a .csv file, read to the end
LoadUserCSV ==
  /\ loads < MaxLoads
  /\ \E file \in Files : Store(UserName, ParseUserCSV(file))

\* loadJSON(path, name), fetched to the end
LoadJSON ==
  /\ loads < MaxLoads
  /\ \E file \in Files : Store(UserName, ParseJSON(file))

\* the values a mapping gives a role: left out, null, a column of the current
\* dataset, a name that is no column
RoleValues ==
  {Undef, Null, Str("nosuch")} \cup
  {Str(getRawData(datasets, currentDataset).cols[i]) :
     i \in 1..Len(getRawData(datasets, currentDataset).cols)}

RoleNames(type) == {CheckedRoles(type)[i].role : i \in 1..Len(CheckedRoles(type))}

\* the mappings validateFieldMapping is called with: the checked roles, and
\* for a bar chart the optional role color
Mappings(type) ==
  IF type = "bar"
  THEN {[r \in {"x", "y", "color"} |-> IF r = "color" THEN c ELSE m[r]] :
          m \in [RoleNames(type) -> RoleValues], c \in {Undef, Str("nosuch")}}
  ELSE [RoleNames(type) -> RoleValues]

\* loader.getSmartFieldMapping(type); the queries leave the store as it is,
\* so one query per state of the store reaches every reply
GetSmartFieldMapping ==
  /\ reply = NoReply
  /\ \E type \in ChartTypes :
       reply' = [op |-> "suggest", type |-> type,
                 result |-> getSmartFieldMapping(type, datasets, currentDataset)]
  /\ UNCHANGED << datasets, currentDataset, filters, loads >>
  /\ UNCHANGED aggVars
  /\ UNCHANGED << dashboard, debouncer >>

\* loader.validateFieldMapping(type, mapping)
Validate(type, m) ==
  /\ reply' = [op |-> "validate", type |-> type, mapping |-> m,
               result |-> validateFieldMapping(type, m, datasets, currentDataset)]
  /\ UNCHANGED << datasets, currentDataset, filters, loads >>
  /\ UNCHANGED aggVars
  /\ UNCHANGED << dashboard, debouncer >>

\* a mapping of the caller's is validated
ValidateFieldMapping ==
  /\ reply = NoReply
  /\ \E type \in ChartTypes : \E m \in Mappings(type) : Validate(type, m)

\* the mapping getSmartFieldMapping has just returned is validated, for the
\* same chart type or another
ValidateSuggested ==
  /\ reply.op = "suggest"
  /\ ~reply.result.threw
  /\ \E type \in ChartTypes : Validate(type, reply.result.mappings)

LoaderNext ==
  \/ LoadUserCSV
  \/ LoadJSON
  \/ GetSmartFieldMapping
  \/ ValidateFieldMapping
  \/ ValidateSuggested

\* a chart that is constructed and left alone
ChartIdle ==
  /\ chartType = "bar"
  /\ options = DefaultOptions("bar")
  /\ data = << >>
  /\ out = NewOut("bar")
  /\ fed = FALSE
  /\ fit = NoFit

LoaderSpecInit ==
  LoaderInit /\ ChartIdle /\ dashboard = NoDashboard /\ debouncer = NewDebouncer

LoaderSpec == LoaderSpecInit /\ [][LoaderNext]_vars

\* ------------------------- the loader with its load paths and its filters
\* the cells of a column of a parsed JSON array: the texts of a CSV column,
\* a blank before a category, a null before a number, numbers
JsonShapes ==
  ColumnShapes \cup
  { << Str(" "), Str("A") >>, << Null, Num(2) >>, << Num(2), Num(3) >> }

\* the texts d3.csv hands the row function: those of ColumnShapes, and a
\* blank before a category
CsvShapes == ColumnShapes \cup { << Str(" "), Str("A") >> }

CsvFiles ==
  UNION {{FileOf(nf, shapes, nrows) : shapes \in [1..nf -> CsvShapes], nrows \in {0, 2}} :
         nf \in 1..SchemaFields}

JsonFiles ==
  UNION {{FileOf(nf, shapes, nrows) : shapes \in [1..nf -> JsonShapes], nrows \in {0, 2}} :
         nf \in 1..SchemaFields}

CsvName == "csv_1"
JsonName == "json_1"
UploadName == "upload_1"

\* loadCSV(path, name), fetched to the end
LoadCSV ==
  /\ loads < MaxLoads
  /\ \E file \in CsvFiles : Store(CsvName, ParseCSV(file))

\* loadUserFile(file, name) of a .csv file, read to the end
LoadUserFileCSV ==
  /\ loads < MaxLoads
  /\ \E file \in CsvFiles : Store(UploadName, ParseUserCSV(file))

\* loadUserFile(file, name) of a .json file holding an array, read to the end
LoadUserFileJSON ==
  /\ loads < MaxLoads
  /\ \E file \in JsonFiles : Store(UploadName, ParseUserJSON(file))

\* loadJSON(path, name) of an array, fetched to the end
LoadJSONArray ==
  /\ loads < MaxLoads
  /\ \E file \in JsonFiles : Store(JsonName, ParseJSON(file))

\* the filter objects applyFilters is called with
NewFilters ==
  { [category |-> [k |-> "array", vals |-> {Str("A")}]],
    [category |-> [k |-> "null"]],
    [sales |-> [k |-> "range", min |-> Num(0), max |-> Num(2)]] }

\* applyFilters(newFilters): this.filters = {...this.filters, ...newFilters};
\* the loader on its own has no onDataChange listener
ApplyFilters ==
  /\ \E newFilters \in NewFilters : filters' = MergeOptions(filters, newFilters)
  /\ UNCHANGED << datasets, currentDataset, reply, loads >>
  /\ UNCHANGED aggVars
  /\ UNCHANGED << dashboard, debouncer >>

\* clearFilters(): this.filters = {}
ClearFilters ==
  /\ filters' = << >>
  /\ UNCHANGED << datasets, currentDataset, reply, loads >>
  /\ UNCHANGED aggVars
  /\ UNCHANGED << dashboard, debouncer >>

\* loader.getColumnInfo()
GetColumnInfo ==
  /\ reply = NoReply
  /\ reply' = [op |-> "columnInfo", result |-> getColumnInfo(datasets, currentDataset)]
  /\ UNCHANGED << datasets, currentDataset, filters, loads >>
  /\ UNCHANGED aggVars
  /\ UNCHANGED << dashboard, debouncer >>

\* loader.getFieldSuggestions()
GetFieldSuggestions ==
  /\ reply = NoReply
  /\ reply' = [op |-> "suggestions", result |-> getFieldSuggestions(datasets, currentDataset)]
  /\ UNCHANGED << datasets, currentDataset, filters, loads >>
  /\ UNCHANGED aggVars
  /\ UNCHANGED << dashboard, debouncer >>

SchemaNext ==
  \/ LoadCSV
  \/ LoadUserFileCSV
  \/ LoadUserFileJSON
  \/ LoadJSONArray
  \/ ApplyFilters
  \/ ClearFilters
  \/ GetColumnInfo
  \/ GetFieldSuggestions
  \/ GetSmartFieldMapping

SchemaSpec == LoaderSpecInit /\ [][SchemaNext]_vars

\* =============================================================== Dashboard
\* --- the sample datasets, two records standing for the generated ones
SalesData ==
  [cols |-> << "id", "date", "sales", "quantity", "category", "region",
               "profit", "month", "quarter" >>,
   rows |-> << [id |-> Num(1), date |-> DateObj(1, 1), sales |-> Num(2),
                quantity |-> Num(1), category |-> Str("Electronics"),
                region |-> Str("North"), profit |-> Num(1),
                month |-> Str("January"), quarter |-> Str("Q1")],
               [id |-> Num(2), date |-> DateObj(2, 2), sales |-> Num(3),
                quantity |-> Num(2), category |-> Str("Clothing"),
                region |-> Str("South"), profit |-> Num(2),
                month |-> Str("January"), quarter |-> Str("Q1")] >>]

\* the records of one day share the day's Date object
TemperatureData ==
  [cols |-> << "date", "temperature", "humidity", "city", "month", "season" >>,
   rows |-> << [date |-> DateObj(1, 1), temperature |-> Num(2),
                humidity |-> Num(1), city |-> Str("New York"),
                month |-> Str("January"), season |-> Str("Winter")],
               [date |-> DateObj(1, 1), temperature |-> Num(3),
                humidity |-> Num(2), city |-> Str("Chicago"),
                month |-> Str("January"), season |-> Str("Winter")] >>]

StockData ==
  [cols |-> << "date", "symbol", "price", "volume", "change", "month" >>,
   rows |-> << [date |-> DateObj(1, 1), symbol |-> Str("AAPL"), price |-> Num(2),
                volume |-> Num(3), change |-> Num(-1), month |-> Str("October")],
               [date |-> DateObj(1, 1), symbol |-> Str("GOOGL"), price |-> Num(3),
                volume |-> Num(2), change |-> Num(1), month |-> Str("October")] >>]

SampleNames == {"sales", "temperature", "stocks"}

\* sampleDatasets[datasetName] || sampleDatasets.sales
SampleData(name) ==
  CASE name = "temperature" -> TemperatureData
    [] name = "stocks" -> StockData
    [] OTHER -> SalesData

\* --- the DataLoader of the Dashboard: [datasets, currentDataset, filters]
\* getCurrentData(): the filtered records of the current dataset, with the
\* key order of the records
getCurrentData(ld) ==
  IF ~Truthy(ld.currentDataset) \/ ld.currentDataset.s \notin DOMAIN ld.datasets
  THEN NoData
  ELSE [cols |-> ld.datasets[ld.currentDataset.s].cols,
        rows |-> filterData(ld.datasets[ld.currentDataset.s].rows, ld.filters)]

\* a store that keeps the dataset of the later request current when the
\* read of the earlier request completes after it
LoaderStoreLatestRequest(ld, name, d) ==
  [ld EXCEPT !.datasets = [n \in DOMAIN ld.datasets \cup {name} |->
                             IF n = name THEN d ELSE ld.datasets[n]],
             !.currentDataset = IF name = "user_1" /\ ld.currentDataset = Str("user_2")
                                THEN ld.currentDataset ELSE Str(name)]

\* this.datasets.set(name, d); this.currentDataset = name
LoaderStore(ld, name, d) ==
  [ld EXCEPT !.datasets = [n \in DOMAIN ld.datasets \cup {name} |->
                             IF n = name THEN d ELSE ld.datasets[n]],
             !.currentDataset = Str(name)]

\* --- Dashboard
NoChart == [type |-> "none"]

\* the predefined mappings of getFieldMapping
SampleMappings(source, type) ==
  CASE source = "temperature" ->
         (CASE type = "bar" -> [x |-> Str("city"), y |-> Str("temperature"), color |-> Str("season")]
            [] type = "line" -> [x |-> Str("date"), y |-> Str("temperature"), group |-> Str("city")]
            [] type = "scatter" ->
                 [x |-> Str("temperature"), y |-> Str("humidity"), color |-> Str("city"), size |-> Null]
            [] type = "pie" -> [label |-> Str("city"), value |-> Str("temperature")]
            [] OTHER -> [x |-> Str("city"), y |-> Str("season"), value |-> Str("temperature")])
    [] source = "stocks" ->
         (CASE type = "bar" -> [x |-> Str("symbol"), y |-> Str("price"), color |-> Str("symbol")]
            [] type = "line" -> [x |-> Str("date"), y |-> Str("price"), group |-> Str("symbol")]
            [] type = "scatter" ->
                 [x |-> Str("price"), y |-> Str("volume"), color |-> Str("symbol"), size |-> Str("change")]
            [] type = "pie" -> [label |-> Str("symbol"), value |-> Str("price")]
            [] OTHER -> [x |-> Str("symbol"), y |-> Str("month"), value |-> Str("price")])
    [] OTHER ->
         (CASE type = "bar" -> [x |-> Str("category"), y |-> Str("sales"), color |-> Str("region")]
            [] type = "line" -> [x |-> Str("date"), y |-> Str("sales"), group |-> Str("category")]
            [] type = "scatter" ->
                 [x |-> Str("quantity"), y |-> Str("sales"), color |-> Str("category"), size |-> Str("profit")]
            [] type = "pie" -> [label |-> Str("category"), value |-> Str("sales")]
            [] OTHER -> [x |-> Str("category"), y |-> Str("region"), value |-> Str("sales")])

\* getFieldMapping: the user's mapping when there is one, else the predefined
\* mapping of the data source, else that of sales
getFieldMapping(s, type) ==
  IF s.isUserData /\ DOMAIN s.fieldMappings # {}
  THEN s.fieldMappings
  ELSE SampleMappings(s.currentDataSource, type)

\* getSafeFieldMapping: the truthy entries
getSafeFieldMapping(s, type) ==
  LET mapping == getFieldMapping(s, type)
  IN [key \in {k \in DOMAIN mapping : Truthy(mapping[k])} |-> mapping[key]]

\* requiredFields[chartType] of validateFieldMappingForChart
requiredFields(type) ==
  CASE type \in {"bar", "line", "scatter"} -> << "x", "y" >>
    [] type = "pie" -> << "label", "value" >>
    [] type = "heatmap" -> << "x", "y", "value" >>
    [] OTHER -> << "x", "y" >>

\* validateFieldMappingForChart(chartType, fieldMapping, data)
validateFieldMappingForChart(type, fieldMapping, view) ==
  /\ Len(view.rows) # 0
  /\ \A i \in 1..Len(requiredFields(type)) :
       /\ Truthy(Get(fieldMapping, requiredFields(type)[i]))
       /\ InSeq(ToStr(Get(fieldMapping, requiredFields(type)[i])), view.cols)

\* the field options createChart passes to the constructor
ChartOptions(type, fieldMapping) ==
  CASE type = "bar" ->
         [xField |-> Get(fieldMapping, "x"), yField |-> Get(fieldMapping, "y"),
          colorField |-> Get(fieldMapping, "color")]
    [] type = "line" ->
         [xField |-> Get(fieldMapping, "x"), yField |-> Get(fieldMapping, "y"),
          groupField |-> Get(fieldMapping, "group")]
    [] type = "scatter" ->
         [xField |-> Get(fieldMapping, "x"), yField |-> Get(fieldMapping, "y"),
          colorField |-> Get(fieldMapping, "color"),
          sizeField |-> Get(fieldMapping, "size"),
          showRegressionLine |-> Bool(TRUE)]
    [] type = "pie" ->
         [labelField |-> Get(fieldMapping, "label"),
          valueField |-> Get(fieldMapping, "value")]
    [] OTHER ->
         [xField |-> Get(fieldMapping, "x"), yField |-> Get(fieldMapping, "y"),
          valueField |-> Get(fieldMapping, "value")]

\* chart.updateData(rows) called by the Dashboard; fedBy keeps who called
Feed(s, via, view) ==
  [s EXCEPT !.currentChart.data = view.rows,
            !.currentChart.fedBy = via]

\* new XChart(container, {...commonOptions, ...}) of createChart; mapping
\* keeps the mapping the options were taken from
NewChart(type, fieldMapping) ==
  [type |-> type, mapping |-> fieldMapping,
   options |-> MergeOptions(DefaultOptions(type), ChartOptions(type, fieldMapping)),
   data |-> << >>, fedBy |-> "none"]

\* createChart(chartType), run in state s0. (A method is written as the
\* state it leaves, CHOOSE r \in {... : s \in {s0}} : TRUE, with s the
\* state it is entered in.)
createChart(s0, type) ==
  CHOOSE r \in UNION {
    { IF Len(view.rows) = 0 THEN [s EXCEPT !.noData = TRUE]
      ELSE IF ~validateFieldMappingForChart(type, fieldMapping, view)
      THEN [s EXCEPT !.noData = FALSE]
      ELSE Feed([s EXCEPT !.noData = FALSE,
                          !.currentChart = NewChart(type, fieldMapping)],
                "createChart", view)
      : view \in {getCurrentData(s.loader)},
        fieldMapping \in {getSafeFieldMapping(s, type)} }
    : s \in {s0} } : TRUE

\* updateCurrentChart()
updateCurrentChart(s0) ==
  CHOOSE r \in UNION {
    { IF s.currentChart = NoChart THEN createChart(s, s.currentChartType)
      ELSE IF Len(view.rows) > 0 THEN Feed(s, "updateCurrentChart", view)
      ELSE [s EXCEPT !.noData = TRUE]
      : view \in {getCurrentData(s.loader)} }
    : s \in {s0} } : TRUE

\* getFieldDefinitionsForChart: the controls, in order
FieldDefinitions(type) ==
  CASE type = "bar" ->
         << [name |-> "x", required |-> TRUE], [name |-> "y", required |-> TRUE],
            [name |-> "color", required |-> FALSE] >>
    [] type = "line" ->
         << [name |-> "x", required |-> TRUE], [name |-> "y", required |-> TRUE],
            [name |-> "group", required |-> FALSE] >>
    [] type = "scatter" ->
         << [name |-> "x", required |-> TRUE], [name |-> "y", required |-> TRUE],
            [name |-> "color", required |-> FALSE],
            [name |-> "size", required |-> FALSE] >>
    [] type = "pie" ->
         << [name |-> "label", required |-> TRUE],
            [name |-> "value", required |-> TRUE] >>
    [] OTHER ->
         << [name |-> "x", required |-> TRUE], [name |-> "y", required |-> TRUE],
            [name |-> "value", required |-> TRUE] >>

\* createFieldMappingControl: the select's options and the value it shows; a
\* select none of whose options is selected shows its first option
createFieldMappingControl(fieldName, required, availableFields, selectedField) ==
  LET opts == IF required THEN availableFields ELSE << "" >> \o availableFields
  IN [name |-> fieldName,
      opts |-> opts,
      value |-> IF selectedField.t = "str" /\ InSeq(selectedField.s, availableFields)
                THEN selectedField.s
                ELSE IF opts = << >> THEN "" ELSE opts[1]]

\* validateCurrentMapping(): exc when validateFieldMapping threw
validateCurrentMapping(s0) ==
  CHOOSE r \in UNION {
    { IF validation.threw THEN [s EXCEPT !.exc = TRUE]
      ELSE [s EXCEPT !.applyDisabled = ~validation.isValid]
      : validation \in {validateFieldMapping(s.currentChartType, s.fieldMappings,
                                             s.loader.datasets,
                                             s.loader.currentDataset)} }
    : s \in {s0} } : TRUE

\* updateFieldMappingUI(): exc when getSmartFieldMapping threw
updateFieldMappingUI(s0) ==
  CHOOSE r \in UNION {
    { IF ~s.isUserData THEN s
      ELSE IF smartMapping.threw THEN [s EXCEPT !.exc = TRUE]
      ELSE validateCurrentMapping(
             [s EXCEPT !.selects =
                         [i \in 1..Len(defs) |->
                            createFieldMappingControl(
                              defs[i].name, defs[i].required, sg.all,
                              Get(smartMapping.mappings, defs[i].name))],
                       !.fieldMappings = smartMapping.mappings])
      : sg \in {getFieldSuggestions(s.loader.datasets, s.loader.currentDataset)},
        smartMapping \in {getSmartFieldMapping(s.currentChartType, s.loader.datasets,
                                               s.loader.currentDataset)},
        defs \in {FieldDefinitions(s.currentChartType)} }
    : s \in {s0} } : TRUE

\* the mapping applyFieldMapping collects from the selects
CollectedMappings(s) ==
  [key \in {s.selects[i].name : i \in {j \in 1..Len(s.selects) : s.selects[j].value # ""}} |->
     Str(s.selects[CHOOSE i \in 1..Len(s.selects) : s.selects[i].name = key].value)]

\* applyFieldMapping()
applyFieldMapping(s0) ==
  CHOOSE r \in UNION {
    { IF ~s.isUserData THEN s
      ELSE IF validation.threw THEN [collected EXCEPT !.exc = TRUE]
      ELSE IF ~validation.isValid THEN collected
      ELSE createChart(collected, s.currentChartType)
      : collected \in {[s EXCEPT !.fieldMappings = CollectedMappings(s)]},
        validation \in {validateFieldMapping(s.currentChartType,
                                             CollectedMappings(s),
                                             s.loader.datasets,
                                             s.loader.currentDataset)} }
    : s \in {s0} } : TRUE

\* setTimeout(() => this.applyFieldMapping(), 100)
SetTimer(s) == [s EXCEPT !.timers = @ + 1]

\* updateFilterOptions(): the options of #categoryFilter become the values
\* of the field mapped to color, else to x, when there is one; the new
\* options are not selected
updateFilterOptions(s0) ==
  CHOOSE r \in UNION {
    { IF Len(raw.rows) = 0 \/ ~Truthy(categoryField) THEN s
      ELSE [s EXCEPT !.categoryOptions =
              {ToStr(Get(raw.rows[i], ToStr(categoryField))) :
                 i \in {j \in 1..Len(raw.rows) :
                          NotNullish(Get(raw.rows[j], ToStr(categoryField)))}},
                     !.selected = {}]
      : raw \in {getRawData(s.loader.datasets, s.loader.currentDataset)},
        categoryField \in {Or(Get(getFieldMapping(s, s.currentChartType), "color"),
                              Get(getFieldMapping(s, s.currentChartType), "x"))} }
    : s \in {s0} } : TRUE

\* the statements that follow a call that may have thrown: the timer is set
\* unless it threw
TimerUnlessThrown(s0) ==
  CHOOSE r \in {IF s.exc THEN s ELSE SetTimer(s) : s \in {s0}} : TRUE

\* the end of the user branch of onDataLoaded, unless it threw
FilterOptionsUnlessThrown(s0) ==
  CHOOSE r \in {IF s.exc THEN s ELSE updateFilterOptions(s) : s \in {s0}} : TRUE

\* onDataLoaded(data)
onDataLoaded(s0, isUserData) ==
  CHOOSE r \in
    { IF isUserData
      THEN FilterOptionsUnlessThrown(
             TimerUnlessThrown(updateFieldMappingUI([s EXCEPT !.isUserData = TRUE])))
      ELSE IF s.currentChart = NoChart
      THEN updateFilterOptions(
             createChart([s EXCEPT !.isUserData = FALSE], s.currentChartType))
      ELSE updateFilterOptions(updateCurrentChart([s EXCEPT !.isUserData = FALSE]))
      : s \in {s0} } : TRUE

\* dataLoader.loadSampleData(name), with the onDataLoad callback
loadSampleData(s, name) ==
  onDataLoaded([s EXCEPT !.loader = LoaderStore(@, name, SampleData(name))], FALSE)

\* switchChart(chartType)
switchChart(s0, type) ==
  CHOOSE r \in
    { IF cleared.isUserData
      THEN TimerUnlessThrown(updateFieldMappingUI(cleared))
      ELSE createChart(cleared, type)
      : cleared \in {[s0 EXCEPT !.currentChartType = type,
                                !.currentChart = NoChart,
                                !.noData = FALSE]} } : TRUE

\* dataLoader.setCurrentDataset(name), with the onDataChange callback
setCurrentDataset(s0, name) ==
  CHOOSE r \in
    { IF name \in DOMAIN s.loader.datasets
      THEN updateCurrentChart([s EXCEPT !.loader.currentDataset = Str(name)])
      ELSE s
      : s \in {s0} } : TRUE

\* showError(message): with no chart loaded the chart area is emptied, the
\* no-data message with it, and the error message is put there
showError(s) ==
  IF s.currentChart = NoChart THEN [s EXCEPT !.noData = FALSE] ELSE s

\* the catch of switchDataSource: showError('Failed to load data source')
CaughtBySwitchDataSource(s0) ==
  CHOOSE r \in {IF s.exc THEN showError([s EXCEPT !.exc = FALSE]) ELSE s : s \in {s0}} : TRUE

\* switchDataSource(dataSource); what the user branch throws is caught
switchDataSource(s0, source, isUser) ==
  CHOOSE r \in
    { IF isUser
      THEN CaughtBySwitchDataSource(
             updateFieldMappingUI(setCurrentDataset(cleared, source)))
      ELSE loadSampleData(cleared, source)
      : cleared \in {[s0 EXCEPT !.currentDataSource = source,
                                !.currentChart = NoChart,
                                !.noData = FALSE,
                                !.fieldMappings = << >>,
                                !.isUserData = isUser]} } : TRUE

\* new Dashboard(): the fields of the constructor, then loadInitialData() and
\* createInitialChart(). With them the state of the page: the options of
\* #categoryFilter and the selected ones, and the values of the sliders
\* #dateRange and #valueRange, which start at the default resetUIControls
\* restores; clock is the Date.now() of the latest import.
Constructed ==
  [constructed |-> TRUE,
   loader |-> [datasets |-> << >>, currentDataset |-> Null, filters |-> << >>],
   currentChart |-> NoChart,
   currentChartType |-> "bar",
   currentDataSource |-> "sales",
   fieldMappings |-> << >>,
   isUserData |-> FALSE,
   selects |-> << >>,
   applyDisabled |-> FALSE,
   noData |-> FALSE,
   timers |-> 0,
   reads |-> << >>,
   imports |-> 0,
   clock |-> 0,
   userDataReads |-> 0,
   userOption |-> "",
   categoryOptions |-> {},
   selected |-> {},
   dateRange |-> 100,
   valueRange |-> 100,
   exc |-> FALSE]

DashInit ==
  dashboard = switchChart(loadSampleData(Constructed, "sales"), "bar")

\* a handler has run to its end, or to the exception nothing catches
Done(s0) ==
  \E s \in {s0} :
    /\ s.timers <= MaxTimers
    /\ dashboard' = [s EXCEPT !.exc = FALSE]
    /\ UNCHANGED aggVars
    /\ UNCHANGED loaderVars
    /\ UNCHANGED debouncer

\* the options of #chartType the user picks between imports: line and scatter
\* require the roles bar requires, and are left out; heatmap is picked before
\* the sliders are moved (SliderChartTypes)
DashChartTypes == {"bar", "pie"}

\* change of #chartType: switchChart, then the listener of setupFieldMapping
ChartTypeChange ==
  /\ dashboard.constructed
  /\ \E type \in DashChartTypes :
       /\ type # dashboard.currentChartType
       /\ Done(updateFieldMappingUI(
                 [switchChart(dashboard, type) EXCEPT !.exc = FALSE]))

\* the sample source the user picks; temperature and stocks are handled as
\* sales is, through loadSampleData
SourceInputs == {"sales"}

\* change of #dataSource: a sample source or the option of the latest
\* imported file
DataSourceChange ==
  /\ dashboard.constructed
  /\ \E source \in SourceInputs \cup ({dashboard.userOption} \ {""}) :
       /\ source # dashboard.currentDataSource
       /\ Done(switchDataSource(dashboard, source, source \notin SampleNames))

\* the files the user imports: a column of categories; categories and
\* numbers; a header without rows
DashFiles ==
  { FileOf(1, << << Str("A"), Str("B") >> >>, 2),
    FileOf(2, << << Str("A"), Str("B") >>, << Str("2"), Str("3") >> >>, 2),
    FileOf(2, << << Str("A"), Str("B") >>, << Str("2"), Str("3") >> >>, 0) }

\* `user_${Date.now()}`, Date.now() counted in milliseconds from the first
\* import
UserDatasetName(now) == << "user_1", "user_2", "user_3" >>[now]

\* Date.now() at an import: the millisecond of the import before it, or a
\* later one
ImportTimes(s) == {t \in {s.clock, s.clock + 1} : t >= 1}

\* handleFileImport(file) up to reader.readAsText(file), at time now
handleFileImport(s, file, now) ==
  [s EXCEPT !.imports = @ + 1,
            !.clock = now,
            !.reads = Append(@, [name |-> UserDatasetName(now), file |-> file])]

\* change of #fileInput: handleFileImport up to reader.readAsText(file)
FileChosen ==
  /\ dashboard.constructed
  /\ dashboard.imports < MaxImports
  /\ \E file \in DashFiles :
       \E now \in ImportTimes(dashboard) :
         Done(handleFileImport(dashboard, file, now))

\* the statements of handleFileImport after the await; when the load was
\* rejected, loadUserFile has triggered onError, whose listener onDataError
\* calls showError, and the catch of handleFileImport shows a status only
ImportResolved(s0, name) ==
  CHOOSE r \in
    { IF s.exc THEN showError(s)
      ELSE updateFieldMappingUI([s EXCEPT !.isUserData = TRUE,
                                          !.currentDataSource = name,
                                          !.userOption = name])
      : s \in {s0} } : TRUE

RemoveAt(q, i) == [j \in 1..(Len(q) - 1) |-> IF j < i THEN q[j] ELSE q[j + 1]]

\* reader.onload of a pending read, and the rest of handleFileImport when the
\* load resolves; what onDataLoaded throws rejects the load
ReadComplete ==
  /\ dashboard.constructed
  /\ \E i \in 1..Len(dashboard.reads) :
       LET read == dashboard.reads[i]
           stored == [dashboard EXCEPT
                        !.reads = RemoveAt(@, i),
                        !.loader = LoaderStore(@, read.name, ParseUserCSV(read.file))]
       IN Done(ImportResolved(onDataLoaded(stored, TRUE), read.name))

\* change of a select of the mapping panel
SelectChange ==
  /\ dashboard.constructed
  /\ dashboard.isUserData
  /\ \E i \in 1..Len(dashboard.selects) :
       \E j \in 1..Len(dashboard.selects[i].opts) :
         /\ dashboard.selects[i].opts[j] # dashboard.selects[i].value
         /\ LET v == dashboard.selects[i].opts[j]
                name == dashboard.selects[i].name
                fm == dashboard.fieldMappings
            IN Done(validateCurrentMapping(
                      [dashboard EXCEPT
                         !.selects[i].value = v,
                         !.fieldMappings =
                            [k \in DOMAIN fm \cup {name} |->
                               IF k = name THEN (IF v = "" THEN Null ELSE Str(v))
                               ELSE fm[k]]]))

\* click on #applyMapping
ApplyClick ==
  /\ dashboard.constructed
  /\ dashboard.isUserData
  /\ ~dashboard.applyDisabled
  /\ Done(applyFieldMapping(dashboard))

\* a timer set by onDataLoaded or switchChart fires
TimerFires ==
  /\ dashboard.constructed
  /\ dashboard.timers > 0
  /\ Done(applyFieldMapping([dashboard EXCEPT !.timers = @ - 1]))

\* DataLoader.findDateColumn(data): the first key of the first record whose
\* value is a Date or a date string, else null
findDateColumn(view) ==
  LET found == {i \in 1..Len(view.cols) :
                  \/ Get(view.rows[1], view.cols[i]).t = "date"
                  \/ isDateString(Get(view.rows[1], view.cols[i]))}
  IN IF Len(view.rows) = 0 \/ found = {} THEN Null
     ELSE Str(view.cols[CHOOSE i \in found : \A j \in found : i <= j])

\* new Date(value) for the values of a date column: a copy of a Date, the
\* Date a date string parses to, the epoch for null
NewDate(c) ==
  CASE c.t = "date" -> DateObj(c.n, 0)
    [] isDateString(c) -> DateObj(DateParse(c.s), 0)
    [] c.t = "null" -> DateObj(-EpochDay, 0)

\* DataLoader.getDataRange(column): the least and the greatest of the
\* values that are not NaN, null or undefined, as numbers; 0 and 100 when
\* there is none
getDataRange(ds, cur, column) ==
  CHOOSE r \in UNION {
    { IF values = {}
      THEN [min |-> TimeNumber(Num(0)), max |-> TimeNumber(Num(100))]
      ELSE [min |-> TimeNumber(CHOOSE v \in values : \A w \in values : JsGe(w, v)),
            max |-> TimeNumber(CHOOSE v \in values : \A w \in values : JsGe(v, w))]
      : values \in {{v \in {Get(rows[i], column) : i \in 1..Len(rows)} :
                       ~IsNaN(v) /\ NotNullish(v)}} }
    : rows \in {getRawData(ds, cur).rows} } : TRUE

\* the date range of getCurrentFilters: the records' dates in ascending
\* order, from the first to the one at the slider's share of them
DateRangeFilter(s) ==
  CHOOSE r \in UNION {
    { IF Len(raw.rows) = 0 \/ ~Truthy(dateField)
         \/ ~(cutoffIndex > 0 /\ cutoffIndex < Len(raw.rows))
      THEN << >>
      ELSE LET made == [i \in 1..Len(raw.rows) |->
                          NewDate(Get(raw.rows[i], ToStr(dateField)))]
               dates == Permute(made, StableSortIdx([i \in 1..Len(made) |-> made[i].n]))
           IN [key \in {ToStr(dateField)} |->
                 [k |-> "range", min |-> dates[1], max |-> dates[cutoffIndex + 1]]]
      : dateField \in {findDateColumn(raw)},
        cutoffIndex \in {(Len(raw.rows) * s.dateRange) \div 100} }
    : raw \in {getRawData(s.loader.datasets, s.loader.currentDataset)} } : TRUE

\* the value range of getCurrentFilters: from the least value of the field
\* mapped to y to the slider's share of the way to the greatest
ValueRangeFilter(s) ==
  CHOOSE r \in UNION {
    { IF ~Truthy(valueField) THEN << >>
      ELSE [key \in {ToStr(valueField)} |->
              [k |-> "range", min |-> JsNumber(range.min), max |-> JsNumber(maxValue)]]
      : maxValue \in UNION {
          { TimeAdd(range.min, share)
            : share \in {TimeMul(span, Frac(s.valueRange, 100))} }
          : span \in {TimeSub(range.max, range.min)} } }
    : range \in {getDataRange(s.loader.datasets, s.loader.currentDataset,
                               ToStr(Get(getFieldMapping(s, s.currentChartType), "y")))},
      valueField \in {Get(getFieldMapping(s, s.currentChartType), "y")} } : TRUE

\* getCurrentFilters(): the selected options of #categoryFilter, if any,
\* then the date range and the value range of the sliders
getCurrentFilters(s0) ==
  CHOOSE r \in UNION {
    { [key \in (IF s.selected = {} THEN {} ELSE {"category"})
                 \cup DOMAIN byDate \cup DOMAIN byValue |->
         IF key \in DOMAIN byValue THEN byValue[key]
         ELSE IF key \in DOMAIN byDate THEN byDate[key]
         ELSE [k |-> "array", vals |-> {Str(o) : o \in s.selected}]]
      : byDate \in {DateRangeFilter(s)}, byValue \in {ValueRangeFilter(s)} }
    : s \in {s0} } : TRUE

\* dataLoader.applyFilters(newFilters), with the onDataChange callback
loaderApplyFilters(s0, filters0) ==
  CHOOSE r \in
    { updateCurrentChart(
        [s EXCEPT !.loader.filters =
                    [k \in DOMAIN s.loader.filters \cup DOMAIN newFilters |->
                       IF k \in DOMAIN newFilters THEN newFilters[k]
                       ELSE s.loader.filters[k]]])
      : s \in {s0}, newFilters \in {filters0} } : TRUE

\* applyFilters()
applyFilters(s0) ==
  CHOOSE r \in {loaderApplyFilters(s, getCurrentFilters(s)) : s \in {s0}} : TRUE

\* the selections of #categoryFilter the user makes: no option, or one
\* option of those there are
Selections(s) ==
  {{}} \cup {{o} : o \in {p \in s.categoryOptions :
                           p = CHOOSE q \in s.categoryOptions : TRUE}}

\* change of #categoryFilter: the user changes the selection, then
\* applyFilters()
CategoryFilterChange ==
  /\ dashboard.constructed
  /\ \E selected \in Selections(dashboard) :
       /\ selected # dashboard.selected
       /\ Done(applyFilters([dashboard EXCEPT !.selected = selected]))

\* resetUIControls(): the sliders at 100, no option selected
resetUIControls(s) ==
  [s EXCEPT !.dateRange = 100, !.valueRange = 100, !.selected = {}]

\* Ctrl+R: clearAll(), that is dataLoader.clearFilters() with its callback,
\* then resetUIControls()
ClearAll ==
  /\ dashboard.constructed
  /\ Done(resetUIControls(updateCurrentChart([dashboard EXCEPT !.loader.filters = << >>])))

\* click on the button of the no-data message
LoadSampleClick ==
  /\ dashboard.constructed
  /\ dashboard.noData
  /\ Done(loadSampleData(dashboard, "sales"))

\* getState(): the chart type, the data source and the loader's filters
getState(s) ==
  [currentChartType |-> s.currentChartType,
   currentDataSource |-> s.currentDataSource,
   filters |-> s.loader.filters]

\* the states setState is called with, saved by getState: when the page
\* was opened, and with the pie chart of the sales shown for one category
SavedStates ==
  { getState(switchChart(loadSampleData(Constructed, "sales"), "bar")),
    [currentChartType |-> "pie",
     currentDataSource |-> "sales",
     filters |-> [category |-> [k |-> "array", vals |-> {Str("Electronics")}]]] }

\* setState(state): switchDataSource when the source differs, switchChart
\* when the chart type differs, then dataLoader.applyFilters(state.filters);
\* what switchChart throws ends the call
setState(s0, state) ==
  CHOOSE r \in UNION {
    { IF typed.exc THEN typed ELSE loaderApplyFilters(typed, state.filters)
      : typed \in {IF state.currentChartType # sourced.currentChartType
                    THEN switchChart(sourced, state.currentChartType)
                    ELSE sourced} }
    : sourced \in {IF state.currentDataSource # s0.currentDataSource
                    THEN switchDataSource(s0, state.currentDataSource,
                                          state.currentDataSource \notin SampleNames)
                    ELSE s0} } : TRUE

\* dashboard.setState(state)
SetState ==
  /\ dashboard.constructed
  /\ \E state \in SavedStates : Done(setState(dashboard, state))

DashNext ==
  \/ SetState
  \/ ChartTypeChange
  \/ DataSourceChange
  \/ FileChosen
  \/ ReadComplete
  \/ SelectChange
  \/ ApplyClick
  \/ TimerFires
  \/ CategoryFilterChange
  \/ ClearAll
  \/ LoadSampleClick

DashSpecInit == DashInit /\ LoaderInit /\ ChartIdle /\ debouncer = NewDebouncer

DashSpec == DashSpecInit /\ [][DashNext]_vars

\* --- imports that overlap
\* change of #fileInput, also while the read of an earlier import is
\* pending: handleFileImport up to reader.readAsText(file)
FileChosenOverlapping ==
  /\ dashboard.constructed
  /\ dashboard.imports < MaxOverlap
  /\ \E file \in DashFiles :
       \E now \in ImportTimes(dashboard) :
         Done(handleFileImport(dashboard, file, now))

\* --- the methods of the Dashboard no listener calls
\* field.replace(/[^a-zA-Z0-9 ]/g, '').trim() for the field names of the
\* model
CleanField(field) == IF field = "Sales ($)" THEN "Sales" ELSE field

\* mappings[cleanField] of autoMapFields, "" when there is none
AutoMappings(cleanField) ==
  CASE cleanField = "Product Category" -> "category"
    [] cleanField = "Sales ($)" -> "sales"
    [] cleanField = "Date" -> "date"
    [] cleanField = "Region" -> "region"
    [] cleanField = "Quantity" -> "quantity"
    [] cleanField = "Profit" -> "profit"
    [] cleanField = "City" -> "city"
    [] cleanField = "Stock Symbol" -> "symbol"
    [] cleanField = "Price ($)" -> "price"
    [] cleanField = "Volume" -> "volume"
    [] OTHER -> ""

\* autoMapFields(sample), fields being Object.keys(sample): each known
\* field is mapped from its target, a later field replacing an earlier one
\* of the same target; then updateFieldMappingUI()
autoMapFields(s0, fields) ==
  CHOOSE r \in
    { updateFieldMappingUI([s0 EXCEPT !.fieldMappings = mappedFields])
      : mappedFields \in
          {[target \in {AutoMappings(CleanField(fields[i])) : i \in 1..Len(fields)}
                        \ {""} |->
              Str(fields[CHOOSE i \in 1..Len(fields) :
                           /\ AutoMappings(CleanField(fields[i])) = target
                           /\ \A j \in 1..Len(fields) :
                                AutoMappings(CleanField(fields[j])) = target => j <= i])]} }
    : TRUE

\* the keys of the samples autoMapFields is called with
AutoMapSamples ==
  { << "Date", "Region", "Sales ($)" >>, << "category", "sales" >> }

\* dashboard.autoMapFields(sample)
AutoMapFields ==
  /\ dashboard.constructed
  /\ \E fields \in AutoMapSamples : Done(autoMapFields(dashboard, fields))

\* dashboard.loadUserData(file): reader.readAsText(file)
LoadUserData ==
  /\ dashboard.constructed
  /\ dashboard.userDataReads < MaxImports
  /\ Done([dashboard EXCEPT !.userDataReads = @ + 1])

\* reader.onload of loadUserData: Utils has no parseCSV, the call throws
\* and the catch calls showError('Failed to load user data')
UserDataRead ==
  /\ dashboard.constructed
  /\ dashboard.userDataReads > 0
  /\ Done(showError([dashboard EXCEPT !.userDataReads = @ - 1]))

RaceNext ==
  \/ FileChosenOverlapping
  \/ ReadComplete
  \/ TimerFires
  \/ ChartTypeChange
  \/ AutoMapFields
  \/ LoadUserData
  \/ UserDataRead

RaceSpec == DashSpecInit /\ [][RaceNext]_vars

\* ============================================================ Utils.debounce
\* the wait of the debounced function, in ticks of the clock
Wait == 2

\* the values a slider is moved to; the listener is called with the event
SliderValues == {0, 50, 100}

\* an executedFunction that leaves a pending timer in place
executedFunctionKeepsTimer(db, of, args) ==
  [db EXCEPT !.timer[of] = IF db.timer[of].set THEN db.timer[of]
                           ELSE [set |-> TRUE, due |-> db.now + Wait, args |-> args],
             !.log = Append(@, [k |-> "call", of |-> of, at |-> db.now, args |-> args])]

\* executedFunction(...args) of the listener of a slider:
\* clearTimeout(timeout); timeout = setTimeout(later, wait), later holding
\* the args of this call
executedFunction(db, of, args) ==
  [db EXCEPT !.timer[of] = [set |-> TRUE, due |-> db.now + Wait, args |-> args],
             !.log = Append(@, [k |-> "call", of |-> of, at |-> db.now, args |-> args])]

\* later(): clearTimeout(timeout); func(...args)
later(db, of) ==
  [db EXCEPT !.timer[of].set = FALSE,
             !.log = Append(@, [k |-> "func", of |-> of, at |-> db.now,
                                args |-> db.timer[of].args])]

\* the timer is due: its callback runs now or later
TimerDue(db, of) == db.timer[of].set /\ db.now >= db.timer[of].due

\* input on a slider: the slider has its new value and the debounced
\* listener is called
DebouncedCall ==
  /\ dashboard.constructed
  /\ Cardinality({i \in 1..Len(debouncer.log) : debouncer.log[i].k = "call"}) < MaxCalls
  /\ debouncer.now + Wait <= MaxTime
  /\ \E of \in Sliders :
       \E value \in SliderValues \ {dashboard[of]} :
         /\ debouncer' = executedFunction(debouncer, of, value)
         /\ dashboard' = [dashboard EXCEPT ![of] = value]
  /\ UNCHANGED << aggVars, loaderVars >>

\* later() of a timer that is due
LaterRuns ==
  \E of \in Sliders :
    /\ TimerDue(debouncer, of)
    /\ debouncer' = later(debouncer, of)

\* the timer set by the last call runs: func is () => this.applyFilters()
TimerRuns ==
  /\ LaterRuns
  /\ dashboard' = [applyFilters(dashboard) EXCEPT !.exc = FALSE]
  /\ UNCHANGED << aggVars, loaderVars >>

\* time passes
Tick ==
  /\ debouncer.now < MaxTime
  /\ debouncer' = [debouncer EXCEPT !.now = @ + 1]
  /\ UNCHANGED << aggVars, loaderVars, dashboard >>

DebounceNext == DebouncedCall \/ TimerRuns \/ Tick

\* the chart type on display when the sliders are moved
SliderChartTypes == {"bar", "pie", "heatmap"}

\* the sales sample on display, after at most one change of #chartType
DebounceInit ==
  /\ \E type \in SliderChartTypes :
       \E s \in {switchChart(loadSampleData(Constructed, "sales"), "bar")} :
         dashboard = IF type = s.currentChartType THEN s
                     ELSE [updateFieldMappingUI(
                             [switchChart(s, type) EXCEPT !.exc = FALSE])
                           EXCEPT !.exc = FALSE]
  /\ LoaderInit
  /\ ChartIdle
  /\ debouncer = NewDebouncer

\* a timer that stays due runs, and time passes
DebounceSpec ==
  /\ DebounceInit
  /\ [][DebounceNext]_vars
  /\ WF_debouncer(LaterRuns)
  /\ WF_vars(Tick)

\* =================================================================== claims
\* what the claims measure the aggregations against, computed from the input
\* records alone

\* the numeric value of a cell, null and missing counting as 0
NumericOrZero(c) == IF c.t = "num" THEN c.n ELSE 0

\* the distinct values of a field (Dates by their instant)
DistinctKeys(recs, opt) == {InternKey(Field(recs[i], opt)) : i \in 1..Len(recs)}
RecordsWithKey(recs, opt, k) ==
  FilterSeq(recs, {i \in 1..Len(recs) : InternKey(Field(recs[i], opt)) = k})
SumOfField(recs, opt) ==
  SumInts([i \in 1..Len(recs) |-> NumericOrZero(Field(recs[i], opt))])
GroupSum(recs, keyOpt, valOpt, k) == SumOfField(RecordsWithKey(recs, keyOpt, k), valOpt)

RECURSIVE JsSum(_)
JsSum(xs) == IF xs = <<>> THEN Int2Js(0) ELSE JsAdd(xs[1], JsSum(Tail(xs)))

PieRows == out.processedData
PieDataTotal == SumOfField(data, options.valueField)
PieKeys == DistinctKeys(data, options.categoryField)
PieCollapsed == Cardinality(PieKeys) > maxSlices

\* C1: the percentages of a non-empty pie aggregation, collapsed or not, sum
\* to 100 when the total of the group sums is positive, and are all 0
\* otherwise.
C1_PiePercentagesSumTo100 ==
  (chartType = "pie" /\ fed /\ PieRows # <<>>) =>
    IF PieDataTotal > 0
    THEN JsSum([i \in 1..Len(PieRows) |-> PieRows[i].percentage]) = Int2Js(100)
    ELSE \A i \in 1..Len(PieRows) : PieRows[i].percentage = Int2Js(0)

\* a collapsed pie result with a positive total: the "Others" row is there
C1_Witness ==
  /\ chartType = "pie" /\ fed /\ PieCollapsed /\ PieDataTotal > 0
  /\ Len(PieRows) = maxSlices
  /\ PieRows[maxSlices].category = Str("Others")
  /\ PieRows[maxSlices].percentage # Int2Js(0)

\* C4: with more than 15 categories the pie result is the 14 groups of largest
\* sum followed by an "Others" row holding the sums, counts and records of all
\* the other groups; with 15 or fewer categories every row is a group of the
\* data.
PieKept == {InternKey(PieRows[i].category) : i \in 1..(maxSlices - 1)}
PieRowIsGroup(row) ==
  /\ InternKey(row.category) \in PieKeys
  /\ row.value = GroupSum(data, options.categoryField, options.valueField,
                          InternKey(row.category))
  /\ row.originalData = RecordsWithKey(data, options.categoryField, InternKey(row.category))
  /\ row.count = Len(row.originalData)
C4_PieTopNCollapse ==
  (chartType = "pie" /\ fed) =>
    IF PieCollapsed
    THEN LET others == PieRows[maxSlices]
             folded == PieKeys \ PieKept
             od == others.originalData
             keyAt(i) == InternKey(Field(od[i], options.categoryField))
         IN /\ Len(PieRows) = maxSlices
            /\ \A i \in 1..(maxSlices - 1) : PieRowIsGroup(PieRows[i])
            /\ Cardinality(PieKept) = maxSlices - 1
            /\ \A f \in folded : \A i \in 1..(maxSlices - 1) :
                 GroupSum(data, options.categoryField, options.valueField, f)
                   <= PieRows[i].value
            /\ others.category = Str("Others")
            /\ others.value =
                 PieDataTotal - SumInts([i \in 1..(maxSlices - 1) |-> PieRows[i].value])
            /\ others.count = Len(od)
            /\ Len(od) =
                 Len(data) - SumInts([i \in 1..(maxSlices - 1) |-> PieRows[i].count])
            /\ \A f \in folded :
                 RecordsWithKey(od, options.categoryField, f)
                   = RecordsWithKey(data, options.categoryField, f)
            /\ \A i \in 1..Len(od) : keyAt(i) \in folded
            /\ \A i, j, l \in 1..Len(od) :
                 (i < j /\ j < l /\ keyAt(i) = keyAt(l)) => keyAt(j) = keyAt(i)
    ELSE /\ Len(PieRows) = Cardinality(PieKeys)
         /\ \A i \in 1..Len(PieRows) : PieRowIsGroup(PieRows[i])

\* more than 15 categories, several of them folded, one folded group of two
\* records
C4_Witness ==
  /\ chartType = "pie" /\ fed
  /\ Cardinality(PieKeys) > maxSlices + 1
  /\ Len(PieRows) = maxSlices
  /\ PieRows[maxSlices].count > Cardinality(PieKeys \ PieKept)

\* the rows of the bar aggregation, the distinct values of its grouping
\* field, and the value of a row: the property the value field names
BarRows == out.filteredData
BarKeys == DistinctKeys(data, options.xField)
BarRowValue(row) == row[ToStr(options.yField)]
\* the row is that of the group of k
BarRowIsGroup(row, k) ==
  /\ row.originalData = RecordsWithKey(data, options.xField, k)
  /\ row.count = Len(row.originalData)
  /\ BarRowValue(row) = GroupSum(data, options.xField, options.yField, k)
  /\ ToStr(options.xField) # ToStr(options.yField) =>
       InternKey(row[ToStr(options.xField)]) = k

\* C5: bar and pie produce one row per distinct value of the grouping field,
\* its value the sum of the value field over the group (null and missing as
\* 0) and its count the number of records of the group, so that the counts
\* sum to the number of input records and the values to the total of the
\* value field.  The pie part is read with the Top-N collapse of C4: one row
\* per value when at most 15 categories are found, the sums in every case.
C5_CategoricalSum ==
  /\ (chartType = "bar" /\ fed) =>
       /\ Len(BarRows) = Cardinality(BarKeys)
       /\ \A k \in BarKeys : \E i \in 1..Len(BarRows) : BarRowIsGroup(BarRows[i], k)
       /\ SumInts([i \in 1..Len(BarRows) |-> BarRows[i].count]) = Len(data)
       /\ SumInts([i \in 1..Len(BarRows) |-> BarRowValue(BarRows[i])])
            = SumOfField(data, options.yField)
  /\ (chartType = "pie" /\ fed) =>
       /\ ~PieCollapsed =>
            /\ Len(PieRows) = Cardinality(PieKeys)
            /\ \A k \in PieKeys : \E i \in 1..Len(PieRows) :
                 InternKey(PieRows[i].category) = k /\ PieRowIsGroup(PieRows[i])
       /\ SumInts([i \in 1..Len(PieRows) |-> PieRows[i].count]) = Len(data)
       /\ SumInts([i \in 1..Len(PieRows) |-> PieRows[i].value]) = PieDataTotal

\* C9: each of the five strategies, given zero records, leaves every result
\* array of the chart empty, whatever the chart held before.
C9_EmptyInputEmptyResult ==
  (fed /\ data = <<>>) =>
    /\ out.filteredData = <<>>
    /\ out.groupedData = <<>>
    /\ out.processedData = <<>>
    /\ out.matrixData = <<>>

\* a heatmap that held cells was given zero records: its cells are gone (the
\* category lists of the cells it held are still there)
C9_Witness ==
  /\ fed /\ data = <<>> /\ chartType = "heatmap"
  /\ out.xCategories # Undef
  /\ out.xCategories # <<>>
  /\ out.processedData = <<>>
  /\ out.matrixData = <<>>

\* the records the heatmap takes in: x and y present, the value numeric
HeatAdmitted == FilterSeq(data, {i \in 1..Len(data) : HeatAdmits(options, data[i])})
HeatXKeys == DistinctKeys(HeatAdmitted, options.xField)
HeatYKeys == DistinctKeys(HeatAdmitted, options.yField)
HeatRecordsAt(kx, ky) ==
  FilterSeq(HeatAdmitted,
            {i \in 1..Len(HeatAdmitted) :
               /\ InternKey(Field(HeatAdmitted[i], options.xField)) = kx
               /\ InternKey(Field(HeatAdmitted[i], options.yField)) = ky})

\* C2: the heatmap matrix has exactly |distinct x| * |distinct y| cells, one
\* for each pair of a distinct x value and a distinct y value.
C2_MatrixIsCrossProduct ==
  (chartType = "heatmap" /\ fed) =>
    /\ Len(out.matrixData) = Cardinality(HeatXKeys) * Cardinality(HeatYKeys)
    /\ \A kx \in HeatXKeys, ky \in HeatYKeys :
         Cardinality({i \in 1..Len(out.matrixData) :
                        /\ InternKey(out.matrixData[i].x) = kx
                        /\ InternKey(out.matrixData[i].y) = ky}) = 1

\* C10: a matrix cell whose (x, y) pair occurs in the data holds the number of
\* records of the pair and the average of their values; a cell whose pair
\* does not occur holds value 0 and count 0.
C10_CellsHoldAverages ==
  (chartType = "heatmap" /\ fed) =>
    \A i \in 1..Len(out.matrixData) :
      LET cell == out.matrixData[i]
          recs == HeatRecordsAt(InternKey(cell.x), InternKey(cell.y))
      IN IF recs # <<>>
         THEN /\ cell.count = Len(recs)
              /\ cell.value = JsDiv(Int2Js(SumOfField(recs, options.valueField)),
                                    Int2Js(Len(recs)))
         ELSE cell.count = 0 /\ cell.value = Int2Js(0)

\* ------------------------------------------------- field mapping (loader)
\* the dataset the loader's queries read
CurrentRaw == getRawData(datasets, currentDataset)

\* the required roles of a chart type
RequiredRoles(type) ==
  CASE type \in {"bar", "line", "scatter"} -> {"x", "y"}
    [] type = "pie" -> {"label", "value"}
    [] type = "heatmap" -> {"x", "y", "value"}

\* the role is mapped to a field name of the dataset
RoleResolves(m, r) ==
  /\ Get(m, r).t = "str"
  /\ Get(m, r).s # ""
  /\ InSeq(Get(m, r).s, CurrentRaw.cols)

\* the kind of a column of the dataset
KindOf(col) == SuggestKind(FirstNonNull(CurrentRaw.rows, col, 1))

\* the kinds recommended for a required role
RecommendedKinds(type, r) ==
  CASE r = "y" /\ type = "heatmap" -> {"categorical"}
    [] r \in {"y", "value"} -> {"numeric"}
    [] r = "label" -> {"categorical"}
    [] type = "line" -> {"date", "numeric"}
    [] type = "scatter" -> {"numeric"}
    [] OTHER -> {"categorical"}

\* the current dataset has two fields or more and, for every required role of
\* the chart type, a field of a kind recommended for that role
FieldsOfAppropriateKinds(type) ==
  /\ Len(CurrentRaw.rows) > 0
  /\ Len(CurrentRaw.cols) >= 2
  /\ \A r \in RequiredRoles(type) :
       \E i \in 1..Len(CurrentRaw.cols) :
         KindOf(CurrentRaw.cols[i]) \in RecommendedKinds(type, r)

\* the reply is that of validating what getSmartFieldMapping suggests for the
\* same chart type
SuggestedWasValidated ==
  /\ reply.op = "validate"
  /\ reply.mapping = getSmartFieldMapping(reply.type, datasets, currentDataset).mappings

\* C3: for every chart type and every dataset with at least 2 fields of
\* appropriate kinds, validating the mapping getSmartFieldMapping suggests
\* gives isValid = true.
C3_SuggestionValid ==
  (SuggestedWasValidated /\ FieldsOfAppropriateKinds(reply.type)) =>
    (~reply.result.threw /\ reply.result.isValid)

\* the suggestion for a scatter plot over a numeric and a categorical field
\* was validated: y is the second field, for want of a second numeric one
C3_Witness ==
  /\ reply.op = "validate"
  /\ reply.type = "scatter"
  /\ FieldsOfAppropriateKinds("scatter")
  /\ SuggestedWasValidated
  /\ Len(CurrentRaw.cols) = 2
  /\ Cardinality({i \in 1..2 : KindOf(CurrentRaw.cols[i]) = "numeric"}) = 1
  /\ ~reply.result.threw
  /\ reply.result.isValid

\* C7, as claimed: validateFieldMapping never throws, whatever the chart type,
\* the mapping and the state of the store.
C7_ValidateNeverThrows ==
  reply.op = "validate" => ~reply.result.threw

\* C8: over a non-empty dataset validateFieldMapping returns a result whose
\* isValid says that every required role resolves to a field of the dataset;
\* it holds one error per required role that does not, and one warning per
\* required role that resolves to a field of a kind that is not recommended;
\* optional roles add nothing.
C8_ValidIffRequiredRolesResolve ==
  (reply.op = "validate" /\ Len(CurrentRaw.rows) > 0) =>
    LET req == RequiredRoles(reply.type)
        bad == {r \in req : ~RoleResolves(reply.mapping, r)}
        odd == {r \in req \ bad :
                  KindOf(Get(reply.mapping, r).s) \notin RecommendedKinds(reply.type, r)}
    IN /\ ~reply.result.threw
       /\ reply.result.isValid <=> (bad = {})
       /\ Len(reply.result.errors) = Cardinality(bad)
       /\ Len(reply.result.warnings) = Cardinality(odd)

C8_Witness ==
  /\ reply.op = "validate"
  /\ Len(CurrentRaw.rows) > 0
  /\ reply.type = "bar"
  /\ Get(reply.mapping, "color") = Str("nosuch")
  /\ RoleResolves(reply.mapping, "x")
  /\ RoleResolves(reply.mapping, "y")
  /\ KindOf(Get(reply.mapping, "x").s) = "numeric"
  /\ ~reply.result.threw
  /\ reply.result.isValid
  /\ Len(reply.result.warnings) = 1

\* -------------------------------------------------------------- Dashboard
\* the chart of the Dashboard holds records it was fed by updateData
ChartFed ==
  /\ dashboard.constructed
  /\ dashboard.currentChart # NoChart
  /\ dashboard.currentChart.fedBy # "none"

\* every required role of the chart's type is mapped, by the mapping the
\* chart was built with, to a field of the records the chart was fed
FedMappingResolves ==
  \A r \in RequiredRoles(dashboard.currentChart.type) :
    /\ Get(dashboard.currentChart.mapping, r).t = "str"
    /\ Get(dashboard.currentChart.mapping, r).s # ""
    /\ Get(dashboard.currentChart.mapping, r).s \in DOMAIN dashboard.currentChart.data[1]

\* C6: in every reachable state of the Dashboard, a chart that was fed records
\* for aggregation was built with a mapping whose required roles all name
\* fields of those records; no other mapping is used for aggregation.
C6_FedOnlyWithResolvedMapping == ChartFed => FedMappingResolves

\* the part of C6 that is about createChart alone: when createChart reaches
\* updateData, the required roles name fields of the records
CreateChartFeedsResolvedMapping ==
  (ChartFed /\ dashboard.currentChart.fedBy = "createChart") => FedMappingResolves

\* ------------------------------------------------------- line and scatter
\* the two sequences hold the same records, each as many times
SameRecords(a, b) ==
  /\ Len(a) = Len(b)
  /\ \A i \in 1..Len(a) :
       Cardinality({j \in 1..Len(a) : a[j] = a[i]})
         = Cardinality({j \in 1..Len(b) : b[j] = a[i]})

\* the instant of a is that of b or an earlier one, for the x values the
\* line chart keeps: a number k (true being 1) read as a date is the instant
\* k milliseconds after the epoch, in 1970, and so before every Date of 2023
NotLaterThan(a, b) ==
  CASE a.t = "date" /\ b.t = "date" -> a.n <= b.n
    [] a.t = "date" -> FALSE
    [] b.t = "date" -> TRUE
    [] OTHER -> a.n <= b.n

\* ascending by the field read as a date
AscendingByDate(recs, opt) ==
  \A i \in 1..(Len(recs) - 1) :
    NotLaterThan(Field(recs[i], opt), Field(recs[i + 1], opt))

\* the input records whose x and y are neither null nor undefined
LineNonNull ==
  FilterSeq(data, {i \in 1..Len(data) :
                     /\ NotNullish(Field(data[i], options.xField))
                     /\ NotNullish(Field(data[i], options.yField))})

\* C11: the line aggregation keeps exactly the records whose x and y are
\* both neither null nor undefined (a record whose x is the number 0
\* included) and returns them ascending by x read as a date.
C11_LineKeepsNonNullSorted ==
  (chartType = "line" /\ fed) =>
    /\ SameRecords(out.filteredData, LineNonNull)
    /\ AscendingByDate(out.filteredData, options.xField)

\* the records the line aggregation kept
LineKept == out.filteredData
LineGroupKeys == DistinctKeys(LineKept, options.groupField)
LinePartitionsByGroup ==
  /\ Len(out.groupedData) = Cardinality(LineGroupKeys)
  /\ \A k \in LineGroupKeys :
       \E i \in 1..Len(out.groupedData) :
         /\ InternKey(out.groupedData[i].key) = k
         /\ SameRecords(out.groupedData[i].values,
                        RecordsWithKey(LineKept, options.groupField, k))
  /\ \A i \in 1..Len(out.groupedData) :
       AscendingByDate(out.groupedData[i].values, options.xField)
LineSinglePartition ==
  /\ Len(out.groupedData) = 1
  /\ out.groupedData[1].values = LineKept

\* C12 as stated: with a group field one partition per distinct group value
\* of the kept records, holding the kept records of that value ascending by
\* x; without a group field a single partition holding all kept records.
C12_PartitionsAlways ==
  (chartType = "line" /\ fed) =>
    IF Truthy(options.groupField) THEN LinePartitionsByGroup
    ELSE LineSinglePartition

\* C12 amended: as stated when at least one record is given; given zero
\* records the aggregation yields no partition, with or without a group
\* field.
C12_PartitionsUnlessNoInput ==
  (chartType = "line" /\ fed) =>
    IF data = <<>> THEN out.groupedData = <<>>
    ELSE IF Truthy(options.groupField) THEN LinePartitionsByGroup
    ELSE LineSinglePartition

\* two partitions, one of two records that the sort had to exchange
C12_Witness ==
  /\ chartType = "line" /\ fed /\ Truthy(options.groupField)
  /\ Len(out.groupedData) = 2
  /\ Len(LineKept) = 3
  /\ LineKept # data

\* C13: the scatter filter returns, in input order, exactly the records
\* whose x and y are both non-null numbers; a record whose x or y is a Date,
\* a boolean or a string is not passed through.
C13_ScatterKeepsNumbersOnly ==
  (chartType = "scatter" /\ fed) =>
    out.filteredData =
      FilterSeq(data, {i \in 1..Len(data) :
                         /\ Field(data[i], options.xField).t = "num"
                         /\ Field(data[i], options.yField).t = "num"})

\* ------------------------------------------------------------- regression
\* C14: calculateLinearRegression returns null for fewer than 2 pairs and a
\* {slope, intercept, rSquared} object for 2 pairs or more.
C14_NullBelowTwoPairs ==
  fit.called =>
    IF Len(fit.xs) < 2 THEN fit.result = NoRegression
    ELSE /\ ~fit.result.isNull
         /\ DOMAIN fit.result = {"isNull", "slope", "intercept", "rSquared"}

\* a call with one pair, and the null it returned
C14_Witness ==
  /\ fit.called
  /\ Len(fit.xs) = 1
  /\ fit.result = NoRegression

\* every number of the regression is defined
WellDefined(regression) ==
  regression.isNull \/
    (~regression.slope.nan /\ ~regression.intercept.nan /\ ~regression.rSquared.nan)

\* all values of the sequence are the same
Constant(xs) == \A i, j \in 1..Len(xs) : xs[i] = xs[j]

\* C15: for 2 or more pairs whose x values are all the same, or whose y
\* values are, calculateLinearRegression returns null or defined numbers (no
\* division by 0 is evaluated), and so does the regression the scatter plot
\* draws.
C15_ZeroVarianceWellDefined ==
  /\ (fit.called /\ Len(fit.xs) >= 2 /\ (Constant(fit.xs) \/ Constant(fit.ys))) =>
       WellDefined(fit.result)
  /\ (chartType = "scatter" /\ fed) => WellDefined(out.regression)

\* ---------------------------------------------------------------- C16
\* the cells of the records stored under a dataset name
StoredCells(name) ==
  IF name \notin DOMAIN datasets THEN {}
  ELSE UNION {{datasets[name].rows[i][f] : f \in DOMAIN datasets[name].rows[i]} :
              i \in 1..Len(datasets[name].rows)}

\* an empty or whitespace-only string
Blank(c) == c.t = "str" /\ StrTrim(c.s) = ""

\* C16: no record stored by a loading path that coerces raw cell text
\* (loadCSV, loadUserCSV, loadUserJSON) holds an empty or blank string; an
\* empty, whitespace-only or null raw value is stored as null.
C16_BlankStoredAsNull ==
  \A name \in {CsvName, UploadName} : \A c \in StoredCells(name) : ~Blank(c)

\* ---------------------------------------------------------------- C17
\* the kind the specification gives a field whose first non-null value is v
KindOfValue(v) ==
  IF v.t = "num" THEN "numeric"
  ELSE IF v.t = "date" \/ (v.t = "str" /\ v.s = "2023-01-01") THEN "date"
  ELSE "categorical"

\* the list getFieldSuggestions files a column in
SuggestedKinds(sg, col) ==
  {k \in {"numeric", "categorical", "date"} : InSeq(col, sg[k])}

\* C17: for a non-empty dataset getColumnInfo has an entry for exactly the
\* field names of the first record, the type of each is the kind of the
\* field's first non-null value (numeric for a number, date for a Date or a
\* date-string, categorical otherwise), and getFieldSuggestions files the
\* field under that same kind; for an empty dataset both return an empty
\* mapping.
C17_ClassifiersAgreeOnKind ==
  reply.op = "columnInfo" =>
    LET dset == getRawData(datasets, currentDataset)
        sg == getFieldSuggestions(datasets, currentDataset)
    IN IF Len(dset.rows) = 0
       THEN reply.result = << >> /\ sg.empty
       ELSE /\ DOMAIN reply.result = DOMAIN dset.rows[1]
            /\ \A col \in DOMAIN dset.rows[1] :
                 /\ reply.result[col].type = KindOfValue(FirstNonNull(dset.rows, col, 1))
                 /\ SuggestedKinds(sg, col) = {reply.result[col].type}

\* ---------------------------------------------------------------- C18
\* a value up to value equality: a Date is its instant, whichever object
ByValue(c) == [c EXCEPT !.id = 0]

\* the distinct non-null values of a field, under value equality
DistinctValues(rows, col) ==
  {ByValue(Get(rows[i], col)) : i \in {j \in 1..Len(rows) : NotNullish(Get(rows[j], col))}}

\* C18: the uniqueCount getColumnInfo reports for a field is the number of
\* distinct non-null values of the field under value equality, two Dates of
\* the same instant counting as one value.
C18_UniqueCountByValue ==
  reply.op = "columnInfo" =>
    \A col \in DOMAIN reply.result :
      reply.result[col].uniqueCount =
        Cardinality(DistinctValues(getRawData(datasets, currentDataset).rows, col))

\* ---------------------------------------------------------------- C19
\* what a schema query returns for the current dataset, asked now
SchemaNow(op, type) ==
  CASE op = "columnInfo" -> getColumnInfo(datasets, currentDataset)
    [] op = "suggestions" -> getFieldSuggestions(datasets, currentDataset)
    [] OTHER -> getSmartFieldMapping(type, datasets, currentDataset)

\* C19: whatever applyFilters and clearFilters calls follow a call of
\* getColumnInfo, getFieldSuggestions or getSmartFieldMapping, the same
\* query for the current dataset returns what that call returned.
C19_FiltersLeaveSchema ==
  reply.op \in {"columnInfo", "suggestions", "suggest"} =>
    reply.result = SchemaNow(reply.op, IF reply.op = "suggest" THEN reply.type ELSE "")

\* the loader's own state as a record
ThisLoader == [datasets |-> datasets, currentDataset |-> currentDataset, filters |-> filters]

\* filters are applied that hide records of the current dataset, after its
\* column info was read
C19_Witness ==
  /\ reply.op = "columnInfo"
  /\ reply.result # << >>
  /\ filters # << >>
  /\ Len(getCurrentData(ThisLoader).rows) < Len(getRawData(datasets, currentDataset).rows)

\* ---------------------------------------------------------------- C20
\* the i-th field of a kind, none when there are fewer
NthOf(list, i) == IF i <= Len(list) THEN Str(list[i]) ELSE Undef
\* a, else b when there is no a
Else(a, b) == IF a = Undef THEN b ELSE a

\* the defaults as the specification's table states them
TableDefaults(type, sg) ==
  CASE type = "bar" ->
         [x |-> Else(NthOf(sg.categorical, 1), NthOf(sg.all, 1)),
          y |-> Else(NthOf(sg.numeric, 1), NthOf(sg.all, 2))]
    [] type = "line" ->
         [x |-> Else(NthOf(sg.date, 1), Else(NthOf(sg.numeric, 1), NthOf(sg.all, 1))),
          y |-> Else(NthOf(sg.numeric, 1), NthOf(sg.all, 2))]
    [] type = "pie" ->
         [label |-> Else(NthOf(sg.categorical, 1), NthOf(sg.all, 1)),
          value |-> Else(NthOf(sg.numeric, 1), NthOf(sg.all, 2))]
    [] OTHER ->
         [x |-> NthOf(sg.categorical, 1),
          y |-> NthOf(sg.categorical, 2),
          value |-> Else(NthOf(sg.numeric, 1), NthOf(sg.all, 3))]

TableTypes == {"bar", "line", "pie", "heatmap"}

\* C20: for bar, line, pie and heatmap getSmartFieldMapping returns the
\* defaults of the table, the heatmap axes being the first and the second
\* categorical field, whatever the current dataset.
C20_TableDefaults ==
  (reply.op = "suggest" /\ reply.type \in TableTypes) =>
    /\ ~reply.result.threw
    /\ reply.result.mappings =
         TableDefaults(reply.type, getFieldSuggestions(datasets, currentDataset))

\* ---------------------------------------------------------------- C21
\* C21: the scatter mapping getSmartFieldMapping suggests never gives x and
\* y the same field: y is the second numeric field when there is one, size
\* the third numeric field or none, color the first categorical field or
\* none.
C21_ScatterAxesDistinct ==
  (reply.op = "suggest" /\ reply.type = "scatter" /\ ~reply.result.threw) =>
    LET sg == getFieldSuggestions(datasets, currentDataset)
        m == reply.result.mappings
    IN /\ m.x # m.y
       /\ Len(sg.numeric) >= 2 => m.y = Str(sg.numeric[2])
       /\ m.size = Else(NthOf(sg.numeric, 3), Null)
       /\ m.color = Else(NthOf(sg.categorical, 1), Null)

\* ---------------------------------------------------------------- C22
\* C22: the completion of a pending read makes its dataset the current
\* dataset of the store, whichever import was requested last; when the read
\* of the import requested first completes after the read of the import
\* requested later, the current dataset is that of the first request.
C22_LastCompletionWins ==
  [][\A i \in 1..Len(dashboard.reads) :
       (/\ Len(dashboard'.reads) < Len(dashboard.reads)
        /\ dashboard'.reads = RemoveAt(dashboard.reads, i))
       => dashboard'.loader.currentDataset = Str(dashboard.reads[i].name)]_vars

\* both reads are complete and the dataset of the import requested first is
\* current: its read completed last
C22_Witness ==
  /\ dashboard.constructed
  /\ dashboard.imports = 2
  /\ dashboard.reads = << >>
  /\ {"user_1", "user_2"} \subseteq DOMAIN dashboard.loader.datasets
  /\ dashboard.loader.currentDataset = Str("user_1")

\* ---------------------------------------------------------------- C23
\* the rows the pie chart of the Dashboard computes from the records it was
\* fed
DashPieRows ==
  PieProcessData(dashboard.currentChart.options, dashboard.currentChart.data,
                 EmptyOut).processedData

\* C23: the pie chart Dashboard.createChart builds groups the records it is
\* fed by the field its mapping gives the label role, and sums the field the
\* mapping gives the value role.
C23_PieGroupsByMappedLabel ==
  (ChartFed /\ dashboard.currentChart.type = "pie") =>
    LET ch == dashboard.currentChart
    IN /\ {InternKey(DashPieRows[i].category) : i \in 1..Len(DashPieRows)}
            = DistinctKeys(ch.data, ch.mapping.label)
       /\ \A i \in 1..Len(DashPieRows) :
            DashPieRows[i].value =
              GroupSum(ch.data, ch.mapping.label, ch.mapping.value,
                       InternKey(DashPieRows[i].category))

\* ---------------------------------------------------------------- C24
\* the array a step of updateData left in the chart is the array it was
\* called with: the records the chart held and one more appended, a
\* many-category dataset given to an empty chart, or no record at all
InputKept ==
  data' # data =>
    \/ /\ Len(data') = Len(data) + 1
       /\ SubSeq(data', 1, Len(data)) = data
       /\ \E r \in Palette(chartType) : data'[Len(data')] = Fresh(r, Len(data'))
    \/ /\ data = << >>
       /\ chartType \in {"bar", "pie"}
       /\ data' \in ManyCatsData
    \/ data' = << >>

\* what processData has left in the chart is what a fresh chart of the same
\* options computes from the same records
Recomputed ==
  fed => [out EXCEPT !.regression = NoRegression, !.regressionGroup = FALSE]
           = ProcessData(chartType, options, data, EmptyOut)

PieKeptRows == IF PieCollapsed THEN maxSlices - 1 ELSE Len(PieRows)

\* the sum of the value field over the records of a bar row
BarGroupSum(row) == SumOfField(row.originalData, options.yField)

\* C25: the rows of the bar aggregation are in non-increasing order of the
\* sums of their groups; the kept rows of the pie aggregation are in
\* non-increasing order of their sums, and no folded group has a larger sum
\* than a kept row.
C25_DescendingBySum ==
  /\ (chartType = "bar" /\ fed) =>
       \A i \in 1..(Len(BarRows) - 1) :
         BarGroupSum(BarRows[i]) >= BarGroupSum(BarRows[i + 1])
  /\ (chartType = "pie" /\ fed) =>
       /\ \A i \in 1..(PieKeptRows - 1) : PieRows[i].value >= PieRows[i + 1].value
       /\ PieCollapsed =>
            \A f \in PieKeys \ PieKept : \A i \in 1..PieKeptRows :
              GroupSum(data, options.categoryField, options.valueField, f)
                <= PieRows[i].value

\* ---------------------------------------------------------------- C26
\* the calls of the debounced listener of a slider and the invocations of
\* its func, by their place in the log
CallsLogged(of) ==
  {i \in 1..Len(debouncer.log) :
     debouncer.log[i].k = "call" /\ debouncer.log[i].of = of}
FuncsLogged(of) ==
  {i \in 1..Len(debouncer.log) :
     debouncer.log[i].k = "func" /\ debouncer.log[i].of = of}

\* two calls with no call between them, the second less than Wait after the
\* first: the burst goes on from i to k
BurstGoesOn(of, i, k) ==
  /\ i \in CallsLogged(of) /\ k \in CallsLogged(of) /\ i < k
  /\ \A m \in CallsLogged(of) : ~(i < m /\ m < k)
  /\ debouncer.log[k].at - debouncer.log[i].at < Wait

\* func is not invoked between two calls of a burst; an invocation follows
\* a call, has the arguments of the last call before it, comes Wait or more
\* after that call, and is the only invocation since that call
BurstSafety ==
  \A of \in Sliders :
    /\ \A i, k \in CallsLogged(of) :
         BurstGoesOn(of, i, k) => \A j \in FuncsLogged(of) : ~(i < j /\ j < k)
    /\ \A j \in FuncsLogged(of) :
         \E i \in CallsLogged(of) :
           /\ i < j
           /\ \A m \in CallsLogged(of) \cup FuncsLogged(of) : ~(i < m /\ m < j)
           /\ debouncer.log[j].args = debouncer.log[i].args
           /\ debouncer.log[j].at >= debouncer.log[i].at + Wait

\* a call that came Wait or more after the call before it: the burst before
\* it had ended, and func was invoked for it before the call
EndedBurstInvoked ==
  \A of \in Sliders :
    \A i, k \in CallsLogged(of) :
      (/\ i < k
       /\ \A m \in CallsLogged(of) : ~(i < m /\ m < k)
       /\ debouncer.log[k].at - debouncer.log[i].at >= Wait)
      => \E j \in FuncsLogged(of) : i < j /\ j < k

\* C26, as stated: a burst of calls of a debounced function, each less than
\* wait after the one before, leads to exactly one invocation of func, after
\* the last call of the burst and with its arguments, and to none while the
\* burst goes on.
C26_BurstInvokesExactlyOnce == BurstSafety /\ EndedBurstInvoked

\* C26, amended: a burst leads to at most one invocation of func, wait or
\* more after the last call of the burst and with its arguments, and to none
\* while the burst goes on; a timer that is set leads to an invocation, for
\* the call that set it or, when a later call is handled before the timer
\* has run, for that later call.
C26_BurstInvokesAtMostOnce ==
  /\ []BurstSafety
  /\ \A of \in Sliders : (debouncer.timer[of].set ~> ~debouncer.timer[of].set)

\* a burst of two inputs on the value slider, then the one invocation, with
\* the arguments of the second call: the filters applied are those of the
\* slider's last value
C26_Witness ==
  /\ Len(debouncer.log) = 3
  /\ BurstGoesOn("valueRange", 1, 2)
  /\ debouncer.log[1].args # debouncer.log[2].args
  /\ debouncer.log[3].k = "func"
  /\ debouncer.log[3].of = "valueRange"
  /\ debouncer.log[3].args = debouncer.log[2].args
  /\ ~debouncer.timer["valueRange"].set
  /\ dashboard.valueRange = debouncer.log[3].args
  /\ dashboard.loader.filters = getCurrentFilters(dashboard)

\* ---------------------------------------------------------------- C27
\* the raw records of the current dataset of the Dashboard's loader
RawRecords == getRawData(dashboard.loader.datasets, dashboard.loader.currentDataset).rows

\* the places of the raw records that pass every active filter
Satisfying ==
  {i \in 1..Len(RawRecords) :
     \A key \in DOMAIN dashboard.loader.filters :
       FilterPasses(Get(RawRecords[i], key), dashboard.loader.filters[key])}

\* v is u with the elements at the places of keep only, in the order of u
IsSubsequenceAt(v, u, keep) ==
  /\ Len(v) = Cardinality(keep)
  /\ \E at \in [1..Len(v) -> keep] :
       /\ \A i, j \in 1..Len(v) : i < j => at[i] < at[j]
       /\ \A i \in 1..Len(v) : v[i] = u[at[i]]

FilteredView ==
  /\ IsSubsequenceAt(getCurrentData(dashboard.loader).rows, RawRecords, Satisfying)
  /\ dashboard.loader.filters = << >> =>
       getCurrentData(dashboard.loader).rows = RawRecords

\* a step that changes the filters leaves every stored dataset as it is
FilteringKeepsRaw ==
  dashboard'.loader.filters # dashboard.loader.filters =>
    dashboard'.loader.datasets = dashboard.loader.datasets

\* C27: after any sequence of load, setCurrentDataset, applyFilters and
\* clearFilters, getCurrentData is the order-preserving subsequence of the
\* raw records of the current dataset that satisfy every active filter,
\* filtering never changes a stored dataset, and with the filters cleared
\* getCurrentData is exactly the raw records.
C27_FilteredViewOfRaw ==
  /\ []FilteredView
  /\ [][FilteringKeepsRaw]_vars

\* a filter is active that hides some raw records and shows others
C27_Witness ==
  /\ dashboard.loader.filters # << >>
  /\ Satisfying # {}
  /\ Satisfying # 1..Len(RawRecords)
  /\ Len(getCurrentData(dashboard.loader).rows) = Cardinality(Satisfying)

\* ---------------------------------------------------------------- C28
\* C28: every record with non-null x, non-null y and a numeric value is
\* counted in exactly one cell of the heatmap matrix: the counts of the
\* cells sum to the number of such records, also with '|' in the x or y
\* values and with a number and a string of the same text as categories.
C28_CountsSumToRecords ==
  (chartType = "heatmap" /\ fed) =>
    SumInts([i \in 1..Len(out.matrixData) |-> out.matrixData[i].count])
      = Len(HeatAdmitted)

\* ---------------------------------------------------------------- C29
\* C29: the category labels of the rows of a pie aggregation result are
\* pairwise distinct, also when the data holds a category named "Others"
\* and more than 15 categories.
C29_PieLabelsDistinct ==
  (chartType = "pie" /\ fed) =>
    \A i, j \in 1..Len(PieRows) :
      i # j => PieRows[i].category # PieRows[j].category

\* ---------------------------------------------------------------- C30
\* the Dashboard when the read of the i-th pending import has completed
\* and loadUserCSV has published the load to onDataLoaded
Published(i) ==
  onDataLoaded([dashboard EXCEPT
                  !.reads = RemoveAt(@, i),
                  !.loader = LoaderStore(@, dashboard.reads[i].name,
                                         ParseUserCSV(dashboard.reads[i].file))],
               TRUE)

\* the load of the i-th pending import completes in this step, and rejects
\* with what the onDataLoad listener threw
LoadRejects(i) ==
  /\ dashboard'.reads = RemoveAt(dashboard.reads, i)
  /\ Published(i).exc

\* C30: a loadUserFile call that rejects leaves the store as it was before
\* the call: the datasets map, currentDataset and the filters are
\* unchanged.
C30_RejectedLoadLeavesStore ==
  [][\A i \in 1..Len(dashboard.reads) :
       LoadRejects(i) => dashboard'.loader = dashboard.loader]_vars

====
